---- MODULE Spec2Model ----
(***************************************************************************)
(* Verification model of the key-management core of token-core:            *)
(*   tcx-primitive/src/sm2.rs            SM2 capability adapter            *)
(*   tcx-primitive/src/starknet_curve.rs Starknet capability adapter       *)
(*   tcx-primitive/src/sm2_bip32.rs      HD derivation engine and codecs   *)
(*                                                                         *)
(* Scale.  A byte is a real byte (0..255) and the 8-bit depth and the      *)
(* 32-bit child number keep their widths.  The 32-byte quantities of the   *)
(* program (scalar, coordinate, chain code, half an HMAC-SHA512 output)    *)
(* are ScalarLen = 1 byte long here, the 4-byte fingerprint, checksum and  *)
(* version are 1 byte long, and the SM2 curve is replaced by a curve of    *)
(* the same shape (a = p - 3, prime order n < p < 2^(8*ScalarLen)) over    *)
(* the 8-bit prime 251.  The hash functions (HMAC-SHA512, HASH160,         *)
(* SHA256d) are fixed mixing functions over byte strings.                  *)
(***************************************************************************)
EXTENDS Integers, Sequences, FiniteSets, TLC

\* ------------------------------------------------------------------------
\* Results of fallible operations.  err = "panic" is a fault (a Rust panic),
\* every other err is an error value returned to the caller.
\* ------------------------------------------------------------------------
Ok(v) == [ok |-> TRUE, err |-> "", val |-> v]

Err(e) == [ok |-> FALSE, err |-> e, val |-> <<>>]

Panic == Err("panic")

\* ------------------------------------------------------------------------
\* Bytes
\* ------------------------------------------------------------------------
Byte == 0..255

\* sm2.rs:29 `data.len() != 32`: the length of a scalar (scaled 32 -> 1).
ScalarLen == 1

\* Sm2PublicKey is an H512: two coordinates (64 bytes, scaled).
PubKeyLen == 2 * ScalarLen

\* Fingerprint::from(&identifier[0..4]) (scaled 4 -> 1).
FingerprintLen == 1

\* ChainCode::from(&hmac_result[32..]) (scaled 32 -> 1).
ChainCodeLen == ScalarLen

\* `network = [0; 4]`: the version prefix (scaled 4 -> 1).
VersionLen == 1

\* base58check appends the first 4 bytes of SHA256d (scaled 4 -> 1).
ChecksumLen == 1

RECURSIVE Pow(_, _)
Pow(b, e) == IF e = 0 THEN 1 ELSE b * Pow(b, e - 1)

\* 2^(8*ScalarLen): the number of values a scalar-sized byte string holds.
ScalarSpace == Pow(256, ScalarLen)

RECURSIVE BytesToInt(_)
\* big-endian value of a byte string
BytesToInt(bs) ==
  IF bs = <<>> THEN 0
  ELSE 256 * BytesToInt(SubSeq(bs, 1, Len(bs) - 1)) + bs[Len(bs)]

RECURSIVE IntToBytes(_, _)
\* big-endian byte string of length len of v (v < 256^len)
IntToBytes(v, len) ==
  IF len = 0 THEN <<>>
  ELSE Append(IntToBytes(v \div 256, len - 1), v % 256)

Zeros(len) == [i \in 1..len |-> 0]

Slice(bs, from, to) == SubSeq(bs, from + 1, to)

\* ------------------------------------------------------------------------
\* Hash functions (external: bitcoin_hashes).  Fixed mixing functions.
\* ------------------------------------------------------------------------
RECURSIVE Mix(_, _)
Mix(h, bs) ==
  IF bs = <<>> THEN h
  ELSE Mix(((h + bs[1] + 1) * 257 + 91) % 65521, Tail(bs))

Digest(salt, bs, len) ==
  LET h == Mix(Mix(salt, bs), <<Len(bs), salt % 256>>)
  IN  [i \in 1..len |-> ((h \div (i * i + 2)) + 7 * i) % 256]

\* HmacEngine<sha512>::new(key); input(data); Hmac::from_engine: 64 bytes (scaled)
HmacSha512(key, data) == Digest(Mix(512, key), data, 2 * ScalarLen)

\* XpubIdentifier = HASH160
Hash160(data) == Digest(160, data, 2 * FingerprintLen)

\* SHA256d, of which base58check keeps the first 4 bytes (scaled)
Sha256d(data) == Digest(256, data, 2 * ChecksumLen)

\* ------------------------------------------------------------------------
\* The curve (external: libsm::sm2::{field, ecc}), scaled.
\* ------------------------------------------------------------------------
\* FieldCtx::new(): the modulus of the coordinate field (SM2's p, scaled).
FieldModulus == 251

\* EccCtx::new(): the order n of the group generated by G (SM2's n, scaled).
GroupOrder == 241

\* EccCtx::new(): curve y^2 = x^3 + a*x + b with a = p - 3.
CurveA == FieldModulus - 3

CurveB == 153

Zero == [inf |-> TRUE, x |-> 0, y |-> 0]

Affine(px, py) == [inf |-> FALSE, x |-> px, y |-> py]

\* EccCtx::generator()
Generator == Affine(2, 54)

FMod(v) == ((v % FieldModulus) + FieldModulus) % FieldModulus

RECURSIVE FPow(_, _)
FPow(v, e) ==
  IF e = 0 THEN 1
  ELSE LET h == FPow(v, e \div 2)
           s == (h * h) % FieldModulus
       IN  IF e % 2 = 1 THEN (s * FMod(v)) % FieldModulus ELSE s

\* FieldCtx::inv
FInv(v) == FPow(v, FieldModulus - 2)

\* FieldCtx::add(a, b): raw 256-bit add; one subtraction of the modulus when the
\* add carried or the raw sum is not below the modulus.
FieldAdd(a, b) ==
  LET carry  == (a + b) \div ScalarSpace
      rawSum == (a + b) % ScalarSpace
  IN  IF carry = 1 \/ rawSum >= FieldModulus
        THEN (rawSum + ScalarSpace - FieldModulus) % ScalarSpace
        ELSE rawSum

\* EccCtx::check_point
CheckPoint(px, py) ==
  FMod(py * py) = FMod(FMod(px * px) * px + CurveA * FMod(px) + CurveB)

\* EccCtx::add (the group law; libsm computes it in Jacobian coordinates)
PointAdd(p1, p2) ==
  IF p1.inf THEN p2
  ELSE IF p2.inf THEN p1
  ELSE IF p1.x = p2.x /\ FMod(p1.y + p2.y) = 0 THEN Zero
  ELSE LET lam == IF p1.x = p2.x
                    THEN FMod(FMod(3 * p1.x * p1.x + CurveA) * FInv(2 * p1.y))
                    ELSE FMod(FMod(p2.y - p1.y) * FInv(FMod(p2.x - p1.x)))
           rx  == FMod(lam * lam - p1.x - p2.x)
       IN  Affine(rx, FMod(lam * FMod(p1.x - rx) - p1.y))

RECURSIVE MulRaw(_, _)
\* EccCtx::mul_raw(m, p): double-and-add over the bits of the raw scalar m
MulRaw(m, pt) ==
  IF m = 0 THEN Zero
  ELSE LET h == MulRaw(m \div 2, pt)
           d == PointAdd(h, h)
       IN  IF m % 2 = 1 THEN PointAdd(d, pt) ELSE d

\* EccCtx::bytes_to_point for the uncompressed form 0x04 || x || y
BytesToPoint(bs) ==
  IF Len(bs) # 1 + PubKeyLen \/ bs[1] # 4 THEN Err("InvalidPoint")
  ELSE LET px == BytesToInt(Slice(bs, 1, 1 + ScalarLen))
           py == BytesToInt(Slice(bs, 1 + ScalarLen, 1 + PubKeyLen))
       IN  IF CheckPoint(px, py) THEN Ok(Affine(FMod(px), FMod(py)))
           ELSE Err("InvalidPoint")

\* EccCtx::point_to_bytes(p, false): to_affine faults on the point at infinity
PointToBytes(pt) ==
  IF pt.inf THEN Panic
  ELSE Ok(<<4>> \o IntToBytes(pt.x, ScalarLen) \o IntToBytes(pt.y, ScalarLen))

\* ------------------------------------------------------------------------
\* SM2 capability adapter (sm2.rs) over cita_sm2 / libsm
\* ------------------------------------------------------------------------
\* H256::from_slice / H512::from_slice on a slice of the hash's own length
HashFromSlice(data, len) == [i \in 1..len |-> IF i <= Len(data) THEN data[i] ELSE 0]

\* Sm2PrivateKey::from_slice
Sm2PrivateKeyFromSlice(data) ==
  IF Len(data) # ScalarLen THEN Err("InvalidSm2Key")
  ELSE Ok(HashFromSlice(data, ScalarLen))

\* Sm2PrivateKey::to_bytes written as the shortest big-endian form of the scalar
\* (a leading zero byte dropped) instead of the fixed-width bytes
Sm2PrivateKeyToBytesTrimmed(sk) == IF sk # <<>> /\ sk[1] = 0 THEN Tail(sk) ELSE sk

\* Sm2PrivateKey::to_bytes
Sm2PrivateKeyToBytes(sk) == sk

\* cita_sm2::KeyPair::from_privkey(..).pubkey(): load_seckey refuses a scalar
\* above the group order; the public point of a scalar that is 0 modulo the
\* order is the point at infinity, which has no affine encoding.
KeyPairFromPrivkey(sk) ==
  LET v == BytesToInt(sk)
  IN  IF v > GroupOrder THEN Err("RecoverError")
      ELSE LET enc == PointToBytes(MulRaw(v % GroupOrder, Generator))
           IN  IF enc.ok THEN Ok(Tail(enc.val)) ELSE Panic

\* Sm2PrivateKey::public_key: KeyPair::from_privkey(..).unwrap()
Sm2PublicKeyOf(sk) ==
  LET kp == KeyPairFromPrivkey(sk)
  IN  IF kp.ok THEN Ok(kp.val) ELSE Panic

\* Sm2PublicKey::from_slice: Ok(PubKey::from_slice(data)) without any check.
\* On a slice of another length H512::from_slice either copies what fits
\* (zero filled) or faults, depending on the fixed-hash release built against.
Sm2PublicKeyFromSlice(data) ==
  IF Len(data) = PubKeyLen THEN {Ok(HashFromSlice(data, PubKeyLen))}
  ELSE {Ok(HashFromSlice(data, PubKeyLen)), Panic}

\* Sm2PublicKey::to_bytes
Sm2PublicKeyToBytes(pk) == pk

\* arithmetic modulo the group order
NMod(v) == ((v % GroupOrder) + GroupOrder) % GroupOrder

RECURSIVE NPow(_, _)
NPow(v, e) ==
  IF e = 0 THEN 1
  ELSE LET h == NPow(v, e \div 2)
           q == (h * h) % GroupOrder
       IN  IF e % 2 = 1 THEN (q * NMod(v)) % GroupOrder ELSE q

\* the nonces SigCtx::sign_raw may draw (it draws them at random)
Nonces == {3, 100}

\* SigCtx::sign_raw with the nonce k: r = e + x1, s = (1 + d)^-1 * (k - r * d);
\* a nonce that gives r = 0, r + k = n or s = 0 is drawn again
SignRaw(d, e, k) ==
  LET p1 == MulRaw(k, Generator)
      r  == NMod(e + p1.x)
      s  == NMod(NPow(1 + d, GroupOrder - 2) * NMod(k - r * d))
  IN  [r |-> r, s |-> s, usable |-> r # 0 /\ r + k # GroupOrder /\ s # 0]

\* cita_sm2 Signature::sign: r || s || public key, for every nonce that is usable
SignatureSign(sk, msg) ==
  LET kp == KeyPairFromPrivkey(sk)
      d  == BytesToInt(sk)
      e  == BytesToInt(msg)
  IN  IF ~kp.ok THEN {kp}
      ELSE {Ok(IntToBytes(SignRaw(d, e, k).r, ScalarLen)
               \o IntToBytes(SignRaw(d, e, k).s, ScalarLen) \o kp.val) :
              k \in {n \in Nonces : SignRaw(d, e, n).usable}}

\* Sm2PrivateKey::sign
Sm2Sign(sk, data) ==
  IF Len(data) # ScalarLen THEN {Err("InvalidMessage")}
  ELSE {IF r.ok THEN r ELSE IF r.err = "panic" THEN Panic ELSE Err("InvalidRecoveryId") :
          r \in SignatureSign(sk, data)}

\* Sm2PrivateKey::sign_recoverable
Sm2SignRecoverable(sk, data) == Sm2Sign(sk, data)

\* ------------------------------------------------------------------------
\* Starknet capability adapter (starknet_curve.rs) over starknet_crypto
\* ------------------------------------------------------------------------
\* The Starknet field prime (2^251 + 17 * 2^192 + 1, scaled to 8 bits).
StarkPrime == 23

\* The Stark curve y^2 = x^3 + StarkAlpha * x + StarkBeta over the field, and the
\* (prime) order of its group, scaled with the field
StarkAlpha == 1

StarkBeta == 19

StarkOrder == 19

\* x is the x-coordinate of a point of the Stark curve
StarkOnCurve(x) ==
  \E y \in 0..(StarkPrime - 1) :
    (y * y) % StarkPrime = (x * x * x + StarkAlpha * x + StarkBeta) % StarkPrime

\* FieldElement::from_byte_slice_be: at most 32 bytes, left padded, below the prime
FieldElementFromByteSliceBe(data) ==
  IF Len(data) > ScalarLen THEN Err("FromByteSliceError::InvalidLength")
  ELSE IF BytesToInt(data) >= StarkPrime THEN Err("FromByteSliceError::OutOfRange")
  ELSE Ok(BytesToInt(data))

\* FieldElement::to_bytes_be
FieldElementToBytesBe(fe) == IntToBytes(fe, ScalarLen)

\* StarknetPrivateKey::from_slice
StarknetPrivateKeyFromSlice(data) == FieldElementFromByteSliceBe(data)

\* StarknetPrivateKey::to_bytes
StarknetPrivateKeyToBytes(sk) == FieldElementToBytesBe(sk)

\* StarknetPublicKey::from_slice
StarknetPublicKeyFromSlice(data) == FieldElementFromByteSliceBe(data)

\* StarknetPublicKey::to_bytes
StarknetPublicKeyToBytes(pk) == FieldElementToBytesBe(pk)

\* starknet_crypto: ELEMENT_UPPER_BOUND (2^251, below the group order), scaled
StarkUpperBound == 16

StarkMod(v) == ((v % StarkPrime) + StarkPrime) % StarkPrime

RECURSIVE StarkFPow(_, _)
StarkFPow(v, e) ==
  IF e = 0 THEN 1
  ELSE LET h == StarkFPow(v, e \div 2)
           q == (h * h) % StarkPrime
       IN  IF e % 2 = 1 THEN (q * StarkMod(v)) % StarkPrime ELSE q

\* starknet_curve: GENERATOR
StarkGenerator == Affine(2, 11)

\* starknet_curve: point addition
StarkAdd(p1, p2) ==
  IF p1.inf THEN p2
  ELSE IF p2.inf THEN p1
  ELSE IF p1.x = p2.x /\ StarkMod(p1.y + p2.y) = 0 THEN Zero
  ELSE LET lam == IF p1.x = p2.x
                    THEN StarkMod(StarkMod(3 * p1.x * p1.x + StarkAlpha)
                                  * StarkFPow(2 * p1.y, StarkPrime - 2))
                    ELSE StarkMod(StarkMod(p2.y - p1.y)
                                  * StarkFPow(StarkMod(p2.x - p1.x), StarkPrime - 2))
           rx  == StarkMod(lam * lam - p1.x - p2.x)
       IN  Affine(rx, StarkMod(lam * StarkMod(p1.x - rx) - p1.y))

RECURSIVE StarkMul(_, _)
\* starknet_curve: multiplication of a point by the bits of a field element
StarkMul(m, pt) ==
  IF m = 0 THEN Zero
  ELSE LET h == StarkMul(m \div 2, pt)
           d == StarkAdd(h, h)
       IN  IF m % 2 = 1 THEN StarkAdd(d, pt) ELSE d

\* StarknetPrivateKey::public_key: the x coordinate of sk * G (0 for the identity)
StarknetPublicKeyOf(sk) == StarkMul(sk, StarkGenerator).x

RECURSIVE StarkOrderPow(_, _)
StarkOrderPow(v, e) ==
  IF e = 0 THEN 1
  ELSE LET h == StarkOrderPow(v, e \div 2)
           q == (h * h) % StarkOrder
       IN  IF e % 2 = 1 THEN (q * (v % StarkOrder)) % StarkOrder ELSE q

\* rfc6979 generate_k with the retry seed: a nonce fixed by the key and the message
GenerateK(sk, msg, seed) ==
  BytesToInt(Digest(97 + seed, <<sk, msg>>, ScalarLen)) % StarkOrder

\* starknet_crypto::sign with the nonce k
EcdsaSign(sk, msg, k) ==
  LET r == StarkMul(k, StarkGenerator).x
      q == (((((r * sk) % StarkOrder) + msg) % StarkOrder)
            * StarkOrderPow(k, StarkOrder - 2)) % StarkOrder
  IN  [r |-> r, s |-> q,
       usable |-> /\ k # 0
                  /\ r # 0 /\ r < StarkUpperBound
                  /\ q # 0 /\ q < StarkUpperBound]

\* the retry seeds SigningKey::sign goes through, in order
RetrySeeds == 0..7

\* SigningKey::sign: the first retry seed whose nonce is usable
SigningKeySign(sk, msg) ==
  IF msg >= StarkUpperBound THEN {Err("EcdsaSignError::MessageHashOutOfRange")}
  ELSE LET good == {j \in RetrySeeds : EcdsaSign(sk, msg, GenerateK(sk, msg, j)).usable}
       IN  IF good = {} THEN {}
           ELSE LET j   == CHOOSE a \in good : \A b \in good : a <= b
                    sig == EcdsaSign(sk, msg, GenerateK(sk, msg, j))
                IN  {Ok(FieldElementToBytesBe(sig.r) \o FieldElementToBytesBe(sig.s))}

\* StarknetPrivateKey::sign
StarknetSign(sk, data) ==
  LET msg == FieldElementFromByteSliceBe(data)
  IN  IF ~msg.ok THEN {msg} ELSE SigningKeySign(sk, msg.val)

\* StarknetPrivateKey::sign_recoverable
StarknetSignRecoverable(sk, data) == StarknetSign(sk, data)

\* ------------------------------------------------------------------------
\* Child numbers (external: bitcoin::util::bip32::ChildNumber)
\* ------------------------------------------------------------------------
Normal(n) == [hardened |-> FALSE, index |-> n]

Hardened(n) == [hardened |-> TRUE, index |-> n]

\* u32::from(ChildNumber).to_be_bytes() without the hardened bit
ChildNumberToBeBytesNoFlag(cn) == IntToBytes(cn.index, 4)

\* u32::from(ChildNumber).to_be_bytes(): index, or index | (1 << 31)
ChildNumberToBeBytes(cn) ==
  LET b == IntToBytes(cn.index, 4)
  IN  IF cn.hardened THEN <<b[1] + 128, b[2], b[3], b[4]>> ELSE b

\* ChildNumber::from(BigEndian::read_u32(bytes))
ChildNumberFromBeBytes(b) ==
  IF b[1] >= 128 THEN Hardened(BytesToInt(<<b[1] - 128, b[2], b[3], b[4]>>))
  ELSE Normal(BytesToInt(b))

\* ------------------------------------------------------------------------
\* Extended keys and child key derivation (sm2_bip32.rs)
\* ------------------------------------------------------------------------
Sm2ExtendedPrivKey(d, fp, cn, sk, cc) ==
  [depth |-> d, parent_fingerprint |-> fp, child_number |-> cn,
   private_key |-> sk, chain_code |-> cc]

Sm2ExtendedPubKey(d, fp, cn, pk, cc) ==
  [depth |-> d, parent_fingerprint |-> fp, child_number |-> cn,
   public_key |-> pk, chain_code |-> cc]

\* `self.depth + 1` on a u8: at 255 a build with overflow checks faults and a
\* build without them wraps to 0.
DepthPlusOne(d) == IF d = 255 THEN {Panic, Ok(0)} ELSE {Ok(d + 1)}

\* Sm2ExtendedPubKey::identifier, fingerprint
PubFingerprint(pk) == SubSeq(Hash160(Sm2PublicKeyToBytes(pk)), 1, FingerprintLen)

\* from_private that labels the public key as a root
FromPrivateAsRoot(k) ==
  LET pk == Sm2PublicKeyOf(k.private_key)
  IN  IF pk.ok
        THEN Ok(Sm2ExtendedPubKey(0, Zeros(FingerprintLen), Normal(0), pk.val,
                                  k.chain_code))
        ELSE Panic

\* Sm2ExtendedPubKey::from_private (faults when public_key() does)
FromPrivate(k) ==
  LET pk == Sm2PublicKeyOf(k.private_key)
  IN  IF pk.ok
        THEN Ok(Sm2ExtendedPubKey(k.depth, k.parent_fingerprint, k.child_number,
                                  pk.val, k.chain_code))
        ELSE Panic

\* a fingerprint of the private key taken over the bytes of the scalar
PrivFingerprintOfScalar(k) ==
  Ok(SubSeq(Hash160(Sm2PrivateKeyToBytes(k.private_key)), 1, FingerprintLen))

\* Sm2ExtendedPrivKey::identifier, fingerprint
PrivFingerprint(k) ==
  LET pub == FromPrivate(k)
  IN  IF pub.ok THEN Ok(PubFingerprint(pub.val.public_key)) ELSE Panic

\* The scalar of the child: FieldCtx::new().add(tweak, parent), lines 61-67
ChildScalar(tweak, parent) ==
  IntToBytes(FieldAdd(BytesToInt(Sm2PrivateKeyToBytes(tweak)),
                      BytesToInt(Sm2PrivateKeyToBytes(parent))), ScalarLen)

\* Sm2ExtendedPrivKey::ckd_priv: the outcomes a build can produce
CkdPriv(k, i) ==
  LET kp   == KeyPairFromPrivkey(k.private_key)
      data == IF i.hardened THEN <<0>> \o Sm2PrivateKeyToBytes(k.private_key)
                            ELSE kp.val
      hm   == HmacSha512(k.chain_code, data \o ChildNumberToBeBytes(i))
      il   == Sm2PrivateKeyFromSlice(Slice(hm, 0, ScalarLen))
      fp   == PrivFingerprint(k)
  IN  IF ~i.hardened /\ ~kp.ok
        THEN {IF kp.err = "panic" THEN Panic ELSE Err("InvalidSm2Key")}
      ELSE IF ~il.ok THEN {Err("InvalidSm2Key")}
      ELSE { IF ~d.ok THEN Panic
             ELSE IF ~fp.ok THEN Panic
             ELSE Ok(Sm2ExtendedPrivKey(d.val, fp.val, i,
                                        ChildScalar(il.val, k.private_key),
                                        Slice(hm, ScalarLen, 2 * ScalarLen)))
             : d \in DepthPlusOne(k.depth) }

\* Sm2ExtendedPubKey::ckd_pub_tweak
CkdPubTweak(k, i) ==
  IF i.hardened THEN Err("CannotDeriveFromHardenedKey")
  ELSE LET hm == HmacSha512(k.chain_code,
                            Sm2PublicKeyToBytes(k.public_key) \o IntToBytes(i.index, 4))
           sk == Sm2PrivateKeyFromSlice(Slice(hm, 0, ScalarLen))
       IN  IF ~sk.ok THEN Err("InvalidSm2Key")
           ELSE Ok([private_key |-> sk.val,
                    chain_code |-> Slice(hm, ScalarLen, 2 * ScalarLen)])

\* Sm2ExtendedPubKey::ckd_pub: the outcomes a build can produce
CkdPub(k, i) ==
  LET tw == CkdPubTweak(k, i)
      pt == BytesToPoint(<<4>> \o Sm2PublicKeyToBytes(k.public_key))
      fin == PointToBytes(PointAdd(pt.val,
               MulRaw(BytesToInt(Sm2PrivateKeyToBytes(tw.val.private_key)), Generator)))
  IN  IF ~tw.ok THEN {tw}
      ELSE IF ~pt.ok THEN {Err("InvalidSm2Key")}
      ELSE IF ~fin.ok THEN {Panic}
      ELSE { IF ~d.ok THEN Panic
             ELSE IF ~pk.ok THEN pk
             ELSE Ok(Sm2ExtendedPubKey(d.val, PubFingerprint(k.public_key), i,
                                       pk.val, tw.val.chain_code))
             : d \in DepthPlusOne(k.depth),
               pk \in Sm2PublicKeyFromSlice(Tail(fin.val)) }

\* ------------------------------------------------------------------------
\* Derivation paths: a path string is a sequence of one-character strings.
\* ------------------------------------------------------------------------
Digits == <<"0", "1", "2", "3", "4", "5", "6", "7", "8", "9">>

IsDigit(c) == \E i \in 1..10 : Digits[i] = c

DigitVal(c) == (CHOOSE i \in 1..10 : Digits[i] = c) - 1

RECURSIVE SplitAcc(_, _, _)
SplitAcc(s, sep, cur) ==
  IF s = <<>> THEN <<cur>>
  ELSE IF s[1] = sep THEN <<cur>> \o SplitAcc(Tail(s), sep, <<>>)
  ELSE SplitAcc(Tail(s), sep, Append(cur, s[1]))

\* str::split('/'): the pieces between separators, empty pieces included
Split(s, sep) == SplitAcc(s, sep, <<>>)

RECURSIVE ParseDigits(_, _, _)
\* core::num: accumulate decimal digits into a u32 kept as two 16-bit limbs;
\* a non-digit or a value above u32::MAX is an error
ParseDigits(s, hi, lo) ==
  IF s = <<>> THEN [ok |-> TRUE, hi |-> hi, lo |-> lo]
  ELSE IF ~IsDigit(s[1]) THEN [ok |-> FALSE, hi |-> 0, lo |-> 0]
  ELSE LET lo2 == lo * 10 + DigitVal(s[1])
           hi2 == hi * 10 + (lo2 \div 65536)
       IN  IF hi2 >= 65536 THEN [ok |-> FALSE, hi |-> 0, lo |-> 0]
           ELSE ParseDigits(Tail(s), hi2, lo2 % 65536)

\* <u32 as FromStr>::from_str: an optional leading '+', then at least one digit
ParseU32(s) ==
  LET body == IF s # <<>> /\ s[1] = "+" THEN Tail(s) ELSE s
  IN  IF body = <<>> THEN [ok |-> FALSE, hi |-> 0, lo |-> 0]
      ELSE ParseDigits(body, 0, 0)

\* ChildNumber::from_normal_idx / from_hardened_idx: the index must be below 2^31
ChildNumberFromIdx(n, hardened) ==
  IF n.hi >= 32768 THEN Err("InvalidChildNumber")
  ELSE Ok([hardened |-> hardened, index |-> n.hi * 65536 + n.lo])

\* <ChildNumber as FromStr>::from_str
ChildNumberFromStr(inp) ==
  LET isHardened == inp # <<>> /\ inp[Len(inp)] = "'"
      n == ParseU32(IF isHardened THEN SubSeq(inp, 1, Len(inp) - 1) ELSE inp)
  IN  IF ~n.ok THEN Err("InvalidChildNumberFormat")
      ELSE ChildNumberFromIdx(n, isHardened)

RECURSIVE CollectChildNumbersLazy(_)
\* a collect that stops at the first component that does not parse and keeps
\* the child numbers before it
CollectChildNumbersLazy(parts) ==
  IF parts = <<>> THEN Ok(<<>>)
  ELSE LET head == ChildNumberFromStr(parts[1])
       IN  IF ~head.ok THEN Ok(<<>>)
           ELSE Ok(<<head.val>> \o CollectChildNumbersLazy(Tail(parts)).val)

RECURSIVE CollectChildNumbers(_)
\* parts.map(str::parse).collect::<Result<Vec<ChildNumber>, _>>(): the first
\* error, or every component's child number
CollectChildNumbers(parts) ==
  IF parts = <<>> THEN Ok(<<>>)
  ELSE LET head == ChildNumberFromStr(parts[1])
           rest == CollectChildNumbers(Tail(parts))
       IN  IF ~head.ok THEN head
           ELSE IF ~rest.ok THEN rest
           ELSE Ok(<<head.val>> \o rest.val)

\* Derive::derive, lines 207-214 and 225-232: split, drop a leading "m", parse
ParsePath(path) ==
  LET parts == Split(path, "/")
  IN  CollectChildNumbers(IF parts[1] = <<"m">> THEN Tail(parts) ELSE parts)

\* ------------------------------------------------------------------------
\* Text encodings (external: hex, bitcoin::util::base58)
\* ------------------------------------------------------------------------
HexDigits == <<"0", "1", "2", "3", "4", "5", "6", "7", "8", "9",
               "a", "b", "c", "d", "e", "f">>

HexUpper == <<"0", "1", "2", "3", "4", "5", "6", "7", "8", "9",
              "A", "B", "C", "D", "E", "F">>

IsHexDigit(c) == \E i \in 1..16 : HexDigits[i] = c \/ HexUpper[i] = c

HexVal(c) == (CHOOSE i \in 1..16 : HexDigits[i] = c \/ HexUpper[i] = c) - 1

RECURSIVE HexEncode(_)
\* hex::encode
HexEncode(bs) ==
  IF bs = <<>> THEN <<>>
  ELSE <<HexDigits[(bs[1] \div 16) + 1], HexDigits[(bs[1] % 16) + 1]>>
       \o HexEncode(Tail(bs))

RECURSIVE HexDecodePairs(_)
HexDecodePairs(s) ==
  IF s = <<>> THEN <<>>
  ELSE <<16 * HexVal(s[1]) + HexVal(s[2])>> \o HexDecodePairs(Tail(Tail(s)))

\* hex::decode
HexDecode(s) ==
  IF Len(s) % 2 = 1 THEN Err("FromHexError::OddLength")
  ELSE IF \E i \in 1..Len(s) : ~IsHexDigit(s[i])
    THEN Err("FromHexError::InvalidHexCharacter")
  ELSE Ok(HexDecodePairs(s))

Base58Chars ==
  <<"1", "2", "3", "4", "5", "6", "7", "8", "9",
    "A", "B", "C", "D", "E", "F", "G", "H", "J", "K", "L", "M", "N", "P", "Q",
    "R", "S", "T", "U", "V", "W", "X", "Y", "Z",
    "a", "b", "c", "d", "e", "f", "g", "h", "i", "j", "k", "m", "n", "o", "p",
    "q", "r", "s", "t", "u", "v", "w", "x", "y", "z">>

IsBase58(c) == \E i \in 1..58 : Base58Chars[i] = c

Base58Val(c) == (CHOOSE i \in 1..58 : Base58Chars[i] = c) - 1

RECURSIVE LeadingCount(_, _)
LeadingCount(s, v) ==
  IF s # <<>> /\ s[1] = v THEN 1 + LeadingCount(Tail(s), v) ELSE 0

DropLeading(s, v) == SubSeq(s, LeadingCount(s, v) + 1, Len(s))

RECURSIVE DivMod58(_, _)
\* long division of a big-endian byte string by 58: quotient bytes and remainder
DivMod58(bs, rem) ==
  IF bs = <<>> THEN [q |-> <<>>, r |-> rem]
  ELSE LET cur  == rem * 256 + bs[1]
           rest == DivMod58(Tail(bs), cur % 58)
       IN  [q |-> <<cur \div 58>> \o rest.q, r |-> rest.r]

RECURSIVE ToBase58Digits(_)
ToBase58Digits(bs) ==
  IF bs = <<>> THEN <<>>
  ELSE LET dm == DivMod58(bs, 0)
       IN  Append(ToBase58Digits(DropLeading(dm.q, 0)), dm.r)

\* base58::encode_slice: one '1' per leading zero byte, then the number in base 58
Base58Encode(bs) ==
  LET ds == ToBase58Digits(DropLeading(bs, 0))
  IN  [i \in 1..LeadingCount(bs, 0) |-> "1"] \o [i \in 1..Len(ds) |-> Base58Chars[ds[i] + 1]]

RECURSIVE MulAdd58(_, _)
\* bs * 58 + carry on a big-endian byte string, growing by a byte when needed
MulAdd58(bs, carry) ==
  IF bs = <<>> THEN (IF carry = 0 THEN <<>> ELSE <<carry>>)
  ELSE LET cur == bs[Len(bs)] * 58 + carry
       IN  Append(MulAdd58(SubSeq(bs, 1, Len(bs) - 1), cur \div 256), cur % 256)

RECURSIVE FromBase58Digits(_, _)
FromBase58Digits(s, acc) ==
  IF s = <<>> THEN acc
  ELSE FromBase58Digits(Tail(s), MulAdd58(acc, Base58Val(s[1])))

\* base58::from
Base58Decode(s) ==
  IF \E i \in 1..Len(s) : ~IsBase58(s[i]) THEN Err("base58::BadByte")
  ELSE Ok(Zeros(LeadingCount(s, "1")) \o FromBase58Digits(DropLeading(s, "1"), <<>>))

Checksum(payload) == SubSeq(Sha256d(payload), 1, ChecksumLen)

\* base58::check_encode_slice
CheckEncodeSlice(payload) == Base58Encode(payload \o Checksum(payload))

\* base58::from_check
FromCheck(s) ==
  LET raw == Base58Decode(s)
      cut == Len(raw.val) - ChecksumLen
  IN  IF ~raw.ok THEN raw
      ELSE IF Len(raw.val) < ChecksumLen THEN Err("base58::TooShort")
      ELSE IF SubSeq(raw.val, cut + 1, Len(raw.val)) # Checksum(SubSeq(raw.val, 1, cut))
        THEN Err("base58::BadChecksum")
      ELSE Ok(SubSeq(raw.val, 1, cut))

\* ------------------------------------------------------------------------
\* Extended-key codec (sm2_bip32.rs, lines 275-390)
\* ------------------------------------------------------------------------
\* Offsets of the raw layout depth || fingerprint || child number || chain code || key
\* (1, 5, 9, 41 and 105 in the program).
OffFingerprint == 1

OffChildNumber == OffFingerprint + FingerprintLen

OffChainCode == OffChildNumber + 4

OffKey == OffChainCode + ChainCodeLen

\* `[0; 105]`
HexPayloadLen == OffKey + PubKeyLen

\* `[0; 109]`
PubSs58PayloadLen == VersionLen + OffKey + PubKeyLen

\* `[0; 78]`: the scalar follows one zero byte
PrivSs58PayloadLen == VersionLen + OffKey + 1 + ScalarLen

\* DecodeCommon reading the chain code one byte late
DecodeCommonShifted(data, base) ==
  [depth |-> data[base + 1],
   parent_fingerprint |-> Slice(data, base + OffFingerprint, base + OffChildNumber),
   child_number |-> ChildNumberFromBeBytes(Slice(data, base + OffChildNumber, base + OffChainCode)),
   chain_code |-> Slice(data, base + OffChainCode + 1, base + OffKey + 1)]

\* The fields every decoder reads, `base` bytes into the payload
DecodeCommon(data, base) ==
  [depth |-> data[base + 1],
   parent_fingerprint |-> Slice(data, base + OffFingerprint, base + OffChildNumber),
   child_number |-> ChildNumberFromBeBytes(Slice(data, base + OffChildNumber, base + OffChainCode)),
   chain_code |-> Slice(data, base + OffChainCode, base + OffKey)]

\* The fields every encoder writes
EncodeCommon(k) ==
  <<k.depth>> \o k.parent_fingerprint \o ChildNumberToBeBytes(k.child_number)
  \o k.chain_code

\* Sm2PublicKey::from_slice on a slice of exactly the key's length has one outcome
PubKeyFromExact(data) == CHOOSE r \in Sm2PublicKeyFromSlice(data) : TRUE

\* to_hex with the child number written least significant byte first
ToHexLittleEndian(k) ==
  LET cn == ChildNumberToBeBytes(k.child_number)
  IN  HexEncode(<<k.depth>> \o k.parent_fingerprint \o <<cn[4], cn[3], cn[2], cn[1]>>
                \o k.chain_code \o Sm2PublicKeyToBytes(k.public_key))

\* ToHex for Bip32Sm2DeterministicPublicKey
ToHex(k) == HexEncode(EncodeCommon(k) \o Sm2PublicKeyToBytes(k.public_key))

\* FromHex for Bip32Sm2DeterministicPublicKey
FromHex(hex) ==
  LET dec  == HexDecode(hex)
      data == dec.val
      c    == DecodeCommon(data, 0)
      pk   == PubKeyFromExact(Slice(data, OffKey, HexPayloadLen))
  IN  IF ~dec.ok THEN dec
      ELSE IF Len(data) # HexPayloadLen THEN Err("InvalidBase58")
      ELSE IF ~pk.ok THEN Err("InvalidSm2Key")
      ELSE Ok(Sm2ExtendedPubKey(c.depth, c.parent_fingerprint, c.child_number,
                                pk.val, c.chain_code))

\* Ss58Codec::to_ss58check_with_version for Bip32Sm2DeterministicPublicKey
\* (copy_from_slice faults on a version of another length)
PubToSs58check(k, version) ==
  IF Len(version) # VersionLen THEN Panic
  ELSE Ok(CheckEncodeSlice(version \o EncodeCommon(k)
                           \o Sm2PublicKeyToBytes(k.public_key)))

\* Ss58Codec::from_ss58check_with_version for Bip32Sm2DeterministicPublicKey
PubFromSs58check(s) ==
  LET dec  == FromCheck(s)
      data == dec.val
      c    == DecodeCommon(data, VersionLen)
      pk   == PubKeyFromExact(Slice(data, VersionLen + OffKey, PubSs58PayloadLen))
  IN  IF ~dec.ok THEN dec
      ELSE IF Len(data) # PubSs58PayloadLen THEN Err("InvalidBase58")
      ELSE IF ~pk.ok THEN Err("InvalidSm2Key")
      ELSE Ok([key |-> Sm2ExtendedPubKey(c.depth, c.parent_fingerprint,
                                         c.child_number, pk.val, c.chain_code),
               version |-> Slice(data, 0, VersionLen)])

\* to_ss58check_with_version of a private key without the zero byte before the scalar
PrivToSs58checkUnpadded(k, version) ==
  IF Len(version) # VersionLen THEN Panic
  ELSE Ok(CheckEncodeSlice(version \o EncodeCommon(k)
                           \o Sm2PrivateKeyToBytes(k.private_key)))

\* Ss58Codec::to_ss58check_with_version for Bip32Sm2DeterministicPrivateKey
PrivToSs58check(k, version) ==
  IF Len(version) # VersionLen THEN Panic
  ELSE Ok(CheckEncodeSlice(version \o EncodeCommon(k) \o <<0>>
                           \o Sm2PrivateKeyToBytes(k.private_key)))

\* Ss58Codec::from_ss58check_with_version for Bip32Sm2DeterministicPrivateKey
PrivFromSs58check(s) ==
  LET dec  == FromCheck(s)
      data == dec.val
      c    == DecodeCommon(data, VersionLen)
      sk   == Sm2PrivateKeyFromSlice(Slice(data, VersionLen + OffKey + 1, PrivSs58PayloadLen))
  IN  IF ~dec.ok THEN dec
      ELSE IF Len(data) # PrivSs58PayloadLen THEN Err("base58::InvalidLength")
      ELSE IF ~sk.ok THEN Err("InvalidSm2Key")
      ELSE Ok([key |-> Sm2ExtendedPrivKey(c.depth, c.parent_fingerprint,
                                          c.child_number, sk.val, c.chain_code),
               version |-> Slice(data, 0, VersionLen)])

\* from_seed with the halves of the HMAC output taken the other way round
FromSeedSwapped(seed) ==
  LET hm == HmacSha512(<<67, 105, 116, 97, 32, 115, 101, 101, 100>>, seed)
      sk == Sm2PrivateKeyFromSlice(Slice(hm, ScalarLen, 2 * ScalarLen))
  IN  IF ~sk.ok THEN Err("InvalidSm2Key")
      ELSE Ok(Sm2ExtendedPrivKey(0, Zeros(FingerprintLen), Normal(0), sk.val,
                                 Slice(hm, 0, ScalarLen)))

\* Bip32Sm2DeterministicPrivateKey::from_seed
FromSeed(seed) ==
  LET hm == HmacSha512(<<67, 105, 116, 97, 32, 115, 101, 101, 100>>, seed)
      sk == Sm2PrivateKeyFromSlice(Slice(hm, 0, ScalarLen))
  IN  IF ~sk.ok THEN Err("InvalidSm2Key")
      ELSE Ok(Sm2ExtendedPrivKey(0, Zeros(FingerprintLen), Normal(0), sk.val,
                                 Slice(hm, ScalarLen, 2 * ScalarLen)))

\* DeterministicPrivateKey::deterministic_public_key
DeterministicPublicKey(k) == FromPrivate(k)

\* the English word list of bip39, scaled to four words; a phrase is the
\* sequence of the positions of its words in the list, 0 for any other word
WordList == 1..4

\* Mnemonic::from_phrase(phrase, Language::English): twelve words (scaled to
\* three) of the list, the last of which carries the checksum of the others
MnemonicFromPhrase(phrase) ==
  IF Len(phrase) # 3 THEN Err("bip39::InvalidWordLength")
  ELSE IF \E i \in DOMAIN phrase : phrase[i] \notin WordList
    THEN Err("bip39::InvalidWord")
  ELSE IF phrase[3] # 1 + ((phrase[1] + phrase[2]) % 4)
    THEN Err("bip39::InvalidChecksum")
  ELSE Ok(phrase)

\* bip39::Seed::new(mnemonic, password): PBKDF2-HMAC-SHA512 of the phrase, 64 bytes
Bip39Seed(mn, password) == Digest(2048, mn \o password, 2 * ScalarLen)

\* Bip32Sm2DeterministicPrivateKey::from_mnemonic
FromMnemonic(phrase) ==
  LET mn == MnemonicFromPhrase(phrase)
  IN  IF ~mn.ok THEN mn ELSE FromSeed(Bip39Seed(mn.val, <<>>))

\* ------------------------------------------------------------------------
\* State
\* ------------------------------------------------------------------------
VARIABLES
  wk,     \* per caller: the derive() call it is in (receiver, path, loop state)
  call,   \* capability layer: the from_slice / to_bytes call sequence under way
  codec   \* extended-key codec: the encode / decode call sequence under way

vars == <<wk, call, codec>>

\* ------------------------------------------------------------------------
\* Inputs
\* ------------------------------------------------------------------------
\* seeds are the byte strings <<0>> .. <<MaxSeed>>
MaxSeed == 3

\* a path has at most MaxPathLen components
MaxPathLen == 2

Seeds == {<<s>> : s \in 0..MaxSeed}

\* 2^31 and 2^32 in decimal
TwoTo31 == <<"2", "1", "4", "7", "4", "8", "3", "6", "4", "8">>

TwoTo32 == <<"4", "2", "9", "4", "9", "6", "7", "2", "9", "6">>

Components ==
  { <<"0">>, <<"1">>, <<"0", "'">>, <<"a">>, <<"+", "1">>, <<>>,
    TwoTo31, Append(TwoTo31, "'"), TwoTo32,
    <<"2", "1", "4", "7", "4", "8", "3", "6", "4", "7">> }

RECURSIVE JoinPath(_)
JoinPath(cs) ==
  IF Len(cs) = 1 THEN cs[1] ELSE cs[1] \o <<"/">> \o JoinPath(Tail(cs))

PathsOver(comps) ==
  LET bare == {JoinPath(cs) : cs \in UNION {[1..n -> comps] : n \in 1..MaxPathLen}}
  IN  bare \cup {<<"m">>} \cup {<<"m", "/">> \o p : p \in bare}

PathStrings == PathsOver(Components)

\* Extended keys handed in as text: a key at depth 255, a key whose public key
\* is not a point of the curve, a private key at depth 255.
HexInputs ==
  { ToHex(Sm2ExtendedPubKey(255, <<7>>, Normal(1), <<2, 54>>, <<9>>)),
    ToHex(Sm2ExtendedPubKey(1, <<7>>, Normal(1), <<0, 0>>, <<9>>)) }

Ss58Inputs ==
  { PrivToSs58check(Sm2ExtendedPrivKey(255, <<7>>, Hardened(1), <<5>>, <<9>>), <<1>>).val }

\* phrases given to from_mnemonic: two that are valid, one with a wrong checksum
\* word, one with a word outside the list, one that is too short
Phrases == { <<1, 2, 4>>, <<3, 3, 3>>, <<1, 2, 3>>, <<1, 0, 3>>, <<1>> }

Roots ==
  {[kind |-> "priv", src |-> "seed", data |-> s] : s \in Seeds}
  \cup {[kind |-> "priv", src |-> "mnemonic", data |-> p] : p \in Phrases}
  \cup {[kind |-> "pub", src |-> "seed", data |-> s] : s \in Seeds}
  \cup {[kind |-> "pub", src |-> "hex", data |-> h] : h \in HexInputs}
  \cup {[kind |-> "priv", src |-> "ss58", data |-> t] : t \in Ss58Inputs}

\* The key a caller starts from
RootKey(r) ==
  IF r.src = "seed"
    THEN LET m == FromSeed(r.data)
         IN  IF r.kind = "priv" \/ ~m.ok THEN m ELSE DeterministicPublicKey(m.val)
  ELSE IF r.src = "mnemonic" THEN FromMnemonic(r.data)
  ELSE IF r.src = "hex" THEN FromHex(r.data)
  ELSE LET d == PrivFromSs58check(r.data) IN IF d.ok THEN Ok(d.val.key) ELSE d

\* ------------------------------------------------------------------------
\* HD derivation engine: Derive::derive, derive_priv, derive_pub
\* ------------------------------------------------------------------------
NoResult == Err("none")

IdleWorker ==
  [pc |-> "idle", kind |-> "", root |-> <<>>, self |-> <<>>, path |-> <<>>,
   nums |-> <<>>, trail |-> <<>>, out |-> NoResult, pub |-> NoResult]

\* the loop variable kept in one place for every caller: a caller that is as far
\* into its path as caller 1 reads the key caller 1 holds
CurShared(w) ==
  IF wk[1].pc = "deriving" /\ Len(wk[1].trail) = Len(wk[w].trail)
    THEN wk[1].trail[Len(wk[1].trail)]
    ELSE wk[w].trail[Len(wk[w].trail)]

\* `sk` / `pk`, the loop variable of derive_priv / derive_pub
Cur(w) == wk[w].trail[Len(wk[w].trail)]

Pos(w) == Len(wk[w].trail) - 1

\* from_seed / deterministic_public_key / from_hex / from_ss58check_with_version
NewRoot(w, r) ==
  /\ wk[w].pc = "idle"
  /\ LET k == RootKey(r)
     IN  wk' = [wk EXCEPT ![w] =
                  IF k.ok
                    THEN [@ EXCEPT !.pc = "ready", !.kind = r.kind, !.root = r,
                                   !.self = k.val]
                    ELSE [@ EXCEPT !.pc = "noroot", !.kind = r.kind, !.root = r,
                                   !.out = k]]
  /\ UNCHANGED <<call, codec>>

\* Derive::derive up to the call of derive_priv / derive_pub: every component
\* is parsed before the first derivation step
CallDerive(w, path) ==
  /\ wk[w].pc = "ready"
  /\ LET parsed == ParsePath(path)
     IN  wk' = [wk EXCEPT ![w] =
                  IF parsed.ok
                    THEN [@ EXCEPT !.pc = "deriving", !.path = path,
                                   !.nums = parsed.val, !.trail = <<wk[w].self>>]
                    ELSE [@ EXCEPT !.pc = "failed", !.path = path, !.out = parsed]]
  /\ UNCHANGED <<call, codec>>

\* StepOutcomes with the HMAC keyed by a chain code kept in one place for every
\* caller (the one caller 1 holds) instead of the chain code of the caller's own key
StepOutcomesShared(w) ==
  LET cc  == IF wk[1].pc = "deriving" THEN Cur(1).chain_code ELSE Cur(w).chain_code
      key == [Cur(w) EXCEPT !.chain_code = cc]
  IN  IF wk[w].kind = "priv" THEN CkdPriv(key, wk[w].nums[Pos(w) + 1])
      ELSE CkdPub(key, wk[w].nums[Pos(w) + 1])

\* The outcomes of one iteration of the loop of derive_priv / derive_pub
StepOutcomes(w) ==
  IF wk[w].kind = "priv" THEN CkdPriv(Cur(w), wk[w].nums[Pos(w) + 1])
  ELSE CkdPub(Cur(w), wk[w].nums[Pos(w) + 1])

\* `sk = sk.ckd_priv(*cnum)?` / `pk = pk.ckd_pub(*cnum)?`
CkdStep(w) ==
  /\ wk[w].pc = "deriving"
  /\ Pos(w) < Len(wk[w].nums)
  /\ \E r \in StepOutcomes(w) :
       wk' = [wk EXCEPT ![w] =
                IF r.ok THEN [@ EXCEPT !.trail = Append(@, r.val)]
                ELSE [@ EXCEPT !.pc = "failed", !.out = r]]
  /\ UNCHANGED <<call, codec>>

\* `Ok(sk)` / `Ok(pk)` after the last component
Return(w) ==
  /\ wk[w].pc = "deriving"
  /\ Pos(w) = Len(wk[w].nums)
  /\ wk' = [wk EXCEPT ![w] = [@ EXCEPT !.pc = "done", !.out = Ok(Cur(w))]]
  /\ UNCHANGED <<call, codec>>

\* deterministic_public_key() of the key a private derive() returned
ToPublic(w) ==
  /\ wk[w].pc = "done"
  /\ wk[w].kind = "priv"
  /\ wk' = [wk EXCEPT ![w] = [@ EXCEPT !.pc = "public",
                                       !.pub = DeterministicPublicKey(wk[w].out.val)]]
  /\ UNCHANGED <<call, codec>>

IdleCall ==
  [stage |-> "none", curve |-> "", kind |-> "", data |-> <<>>, first |-> NoResult,
   bytes |-> <<>>, second |-> NoResult, msg |-> <<>>, sig |-> NoResult,
   sigrec |-> NoResult, pub |-> NoResult, pubagain |-> NoResult, op |-> "",
   payer |-> 0]

IdleCodec ==
  [stage |-> "none", form |-> "", key |-> <<>>, version |-> <<>>, text |-> NoResult,
   back |-> NoResult, payload |-> <<>>, cn |-> <<>>, u32 |-> <<>>]

Init ==
  /\ wk = [w \in {1} |-> IdleWorker]
  /\ call = IdleCall
  /\ codec = IdleCodec

Next ==
  \/ \E w \in DOMAIN wk, r \in Roots : NewRoot(w, r)
  \/ \E w \in DOMAIN wk, p \in PathStrings : CallDerive(w, p)
  \/ \E w \in DOMAIN wk : CkdStep(w)
  \/ \E w \in DOMAIN wk : Return(w)
  \/ \E w \in DOMAIN wk : ToPublic(w)

Spec == Init /\ [][Next]_vars

\* ------------------------------------------------------------------------
\* Two callers deriving side by side from seed roots
\* ------------------------------------------------------------------------
\* the roots of the smallest and of the largest seed
PairRoots == {[kind |-> "priv", src |-> "seed", data |-> <<s>>] : s \in {0, MaxSeed}}

PairPaths == {p \in PathsOver({<<"0">>, <<"0", "'">>}) : p[1] = "m"}

InitPair ==
  /\ wk = [w \in {1, 2} |-> IdleWorker]
  /\ call = IdleCall
  /\ codec = IdleCodec

NextPair ==
  \/ \E w \in DOMAIN wk, r \in PairRoots : NewRoot(w, r)
  \/ \E w \in DOMAIN wk, p \in PairPaths : CallDerive(w, p)
  \/ \E w \in DOMAIN wk : CkdStep(w)
  \/ \E w \in DOMAIN wk : Return(w)

SpecPair == InitPair /\ [][NextPair]_vars

\* ------------------------------------------------------------------------
\* Capability layer: PrivateKey / PublicKey from_slice and to_bytes
\* ------------------------------------------------------------------------
\* a slice handed to from_slice has at most MaxSliceLen bytes
MaxSliceLen == 3

SampleBytes == {0, 2, 19, 54, 241, 255}

SliceInputs == UNION {[1..n -> SampleBytes] : n \in 0..MaxSliceLen}

Curves == {"SM2", "Starknet"}

\* <K as PrivateKey>::from_slice / <K as PublicKey>::from_slice
FromSlice(curve, kind, data) ==
  IF curve = "SM2"
    THEN IF kind = "priv" THEN {Sm2PrivateKeyFromSlice(data)}
         ELSE Sm2PublicKeyFromSlice(data)
    ELSE IF kind = "priv" THEN {StarknetPrivateKeyFromSlice(data)}
         ELSE {StarknetPublicKeyFromSlice(data)}

\* <K as PrivateKey>::to_bytes / <K as PublicKey>::to_bytes
ToBytes(curve, kind, key) ==
  IF curve = "SM2"
    THEN IF kind = "priv" THEN Sm2PrivateKeyToBytes(key) ELSE Sm2PublicKeyToBytes(key)
    ELSE IF kind = "priv" THEN StarknetPrivateKeyToBytes(key)
         ELSE StarknetPublicKeyToBytes(key)

KeyFromSlice(curve, kind, data) ==
  /\ call.stage = "none"
  /\ \E r \in FromSlice(curve, kind, data) :
       call' = [call EXCEPT !.stage = "parsed", !.curve = curve, !.kind = kind,
                            !.data = data, !.first = r]
  /\ UNCHANGED <<wk, codec>>

KeyToBytes ==
  /\ call.stage = "parsed"
  /\ call.first.ok
  /\ call' = [call EXCEPT !.stage = "serialized",
                          !.bytes = ToBytes(call.curve, call.kind, call.first.val)]
  /\ UNCHANGED <<wk, codec>>

KeyFromSliceAgain ==
  /\ call.stage = "serialized"
  /\ \E r \in FromSlice(call.curve, call.kind, call.bytes) :
       call' = [call EXCEPT !.stage = "reparsed", !.second = r]
  /\ UNCHANGED <<wk, codec>>

\* the messages given to sign: empty, short, of the digest's length, long
MsgInputs == {<<>>, <<2>>, <<19>>, <<255>>, <<2, 54>>}

\* <K as PrivateKey>::sign
Sign(curve, key, data) ==
  IF curve = "SM2" THEN Sm2Sign(key, data) ELSE StarknetSign(key, data)

\* <K as PrivateKey>::sign_recoverable
SignRecoverable(curve, key, data) ==
  IF curve = "SM2" THEN Sm2SignRecoverable(key, data)
  ELSE StarknetSignRecoverable(key, data)

\* <K as PrivateKey>::public_key
PublicKeyOf(curve, key) ==
  IF curve = "SM2" THEN Sm2PublicKeyOf(key) ELSE Ok(StarknetPublicKeyOf(key))

\* sign and sign_recoverable called on a key from_slice returned
KeySign(data) ==
  /\ call.stage = "parsed"
  /\ call.kind = "priv"
  /\ call.first.ok
  /\ \E a \in Sign(call.curve, call.first.val, data),
        b \in SignRecoverable(call.curve, call.first.val, data) :
       call' = [call EXCEPT !.stage = "signed", !.msg = data, !.sig = a, !.sigrec = b]
  /\ UNCHANGED <<wk, codec>>

\* public_key called twice on a key from_slice returned
KeyPublicKey ==
  /\ call.stage = "parsed"
  /\ call.kind = "priv"
  /\ call.first.ok
  /\ call' = [call EXCEPT !.stage = "derived",
                          !.bytes = ToBytes(call.curve, "priv", call.first.val),
                          !.pub = PublicKeyOf(call.curve, call.first.val),
                          !.pubagain = PublicKeyOf(call.curve, call.first.val)]
  /\ UNCHANGED <<wk, codec>>

\* ------------------------------------------------------------------------
\* Typed keys and KeyManage (ecc.rs, lines 105-187)
\* ------------------------------------------------------------------------
\* tcx_constants::CurveType
CurveTypes == {"SECP256k1", "ED25519", "SubSr25519", "BLS", "StarknetCurve"}

\* Secp256k1PrivateKey::from_slice
Secp256k1PrivateKeyFromSlice(data) ==
  IF Len(data) # ScalarLen \/ BytesToInt(data) = 0 THEN Err("InvalidPrivateKey")
  ELSE Ok(data)

\* Secp256k1PublicKey::from_slice: a compressed or an uncompressed point
Secp256k1PublicKeyFromSlice(data) ==
  IF Len(data) \notin {ScalarLen + 1, PubKeyLen + 1} THEN Err("InvalidPublicKey")
  ELSE Ok(data)

\* Secp256k1PrivateKey::public_key: the compressed point of the scalar
Secp256k1PublicKeyOf(sk) == <<2>> \o Digest(256, sk, ScalarLen)

\* Secp256k1PrivateKey::sign
Secp256k1Sign(sk, data) ==
  IF Len(data) # ScalarLen THEN Err("InvalidMessage")
  ELSE Ok(Digest(257, sk \o data, 2 * ScalarLen))

\* Secp256k1PrivateKey::sign_recoverable: the signature and a recovery id
Secp256k1SignRecoverable(sk, data) ==
  IF Len(data) # ScalarLen THEN Err("InvalidMessage")
  ELSE Ok(Digest(257, sk \o data, 2 * ScalarLen) \o <<0>>)

\* TypedPrivateKey::Secp256k1 / TypedPublicKey::Secp256k1
TypedSecp256k1(key) == [variant |-> "Secp256k1", key |-> key]

\* KeyManage::private_key_from_slice
PrivateKeyFromSlice(curve_type, data) ==
  IF curve_type = "SECP256k1"
    THEN LET r == Secp256k1PrivateKeyFromSlice(data)
         IN  IF r.ok THEN Ok(TypedSecp256k1(r.val)) ELSE r
    ELSE Panic

\* KeyManage::public_key_from_slice
PublicKeyFromSlice(curve_type, data) ==
  IF curve_type = "SECP256k1"
    THEN LET r == Secp256k1PublicKeyFromSlice(data)
         IN  IF r.ok THEN Ok(TypedSecp256k1(r.val)) ELSE r
    ELSE Panic

\* TypedPrivateKey::sign
TypedSign(tk, data) ==
  IF tk.variant = "Secp256k1" THEN Secp256k1Sign(tk.key, data) ELSE Panic

\* TypedPrivateKey::sign_recoverable
TypedSignRecoverable(tk, data) ==
  IF tk.variant = "Secp256k1" THEN Secp256k1SignRecoverable(tk.key, data) ELSE Panic

\* TypedPrivateKey::public_key
TypedPublicKeyOf(tk) ==
  IF tk.variant = "Secp256k1" THEN Ok(TypedSecp256k1(Secp256k1PublicKeyOf(tk.key)))
  ELSE Panic

\* TypedPrivateKey::curve_type / TypedPublicKey::curve_type
TypedCurveType(tk) == IF tk.variant = "Secp256k1" THEN Ok("SECP256k1") ELSE Panic

\* TypedPublicKey::to_bytes
TypedToBytes(tk) == IF tk.variant = "Secp256k1" THEN Ok(tk.key) ELSE Panic

\* the slices given to KeyManage
TypedSlices == {<<>>, <<0>>, <<7>>, <<2, 54>>, <<4, 2, 54>>}

\* the operations of a typed key
TypedOps(kind) ==
  IF kind = "typed_priv" THEN {"sign", "sign_recoverable", "public_key", "curve_type"}
  ELSE {"to_bytes", "curve_type"}

TypedResult(op, tk, data) ==
  IF op = "sign" THEN TypedSign(tk, data)
  ELSE IF op = "sign_recoverable" THEN TypedSignRecoverable(tk, data)
  ELSE IF op = "public_key" THEN TypedPublicKeyOf(tk)
  ELSE IF op = "to_bytes" THEN TypedToBytes(tk)
  ELSE TypedCurveType(tk)

\* a call of KeyManage::private_key_from_slice / public_key_from_slice
TypedFromSlice(curve_type, kind, data) ==
  /\ call.stage = "none"
  /\ call' = [call EXCEPT !.stage = "typed", !.curve = curve_type, !.kind = kind,
                          !.data = data,
                          !.first = IF kind = "typed_priv"
                                      THEN PrivateKeyFromSlice(curve_type, data)
                                      ELSE PublicKeyFromSlice(curve_type, data)]
  /\ UNCHANGED <<wk, codec>>

\* a call of an operation of the typed key KeyManage returned
TypedCall(op, data) ==
  /\ call.stage = "typed"
  /\ call.first.ok
  /\ op \in TypedOps(call.kind)
  /\ call' = [call EXCEPT !.stage = "dispatched", !.op = op, !.msg = data,
                          !.second = TypedResult(op, call.first.val, data)]
  /\ UNCHANGED <<wk, codec>>

InitKey ==
  /\ wk = [w \in {1} |-> IdleWorker]
  /\ call = IdleCall
  /\ codec = IdleCodec

NextKey ==
  \/ \E c \in Curves, k \in {"priv", "pub"}, d \in SliceInputs : KeyFromSlice(c, k, d)
  \/ KeyToBytes
  \/ KeyFromSliceAgain
  \/ \E d \in MsgInputs : KeySign(d)
  \/ KeyPublicKey
  \/ \E c \in CurveTypes, k \in {"typed_priv", "typed_pub"}, d \in TypedSlices :
       TypedFromSlice(c, k, d)
  \/ \E op \in {"sign", "sign_recoverable", "public_key", "curve_type", "to_bytes"},
        d \in MsgInputs : TypedCall(op, d)

SpecKey == InitKey /\ [][NextKey]_vars

\* ------------------------------------------------------------------------
\* Address validity (tcx-sui, tcx-aptos, tcx-cita: address.rs)
\* ------------------------------------------------------------------------
\* `address.len() != 64` (scaled 64 -> 4)
AddressLen == 4

\* an address handed to is_valid has at most MaxAddressLen characters
MaxAddressLen == 7

\* the characters of an address: two of one byte and one of two bytes in UTF-8
AddressChars == {"0", "x", "U+00E9"}

AddressInputs == UNION {[1..n -> AddressChars] : n \in 0..MaxAddressLen}

RECURSIVE StrLen(_)
\* str::len: the length of the string in bytes
StrLen(s) ==
  IF s = <<>> THEN 0
  ELSE (IF Head(s) = "U+00E9" THEN 2 ELSE 1) + StrLen(Tail(s))

RECURSIVE StripEveryPrefix(_)
\* strip_prefix applied for as long as the prefix is there
StripEveryPrefix(s) ==
  IF Len(s) >= 2 /\ s[1] = "0" /\ s[2] = "x"
    THEN StripEveryPrefix(SubSeq(s, 3, Len(s)))
    ELSE s

\* address.strip_prefix("0x").unwrap_or(address)
StripPrefix(s) ==
  IF Len(s) >= 2 /\ s[1] = "0" /\ s[2] = "x" THEN SubSeq(s, 3, Len(s)) ELSE s

\* SuiAddress::is_valid
SuiIsValid(address) ==
  IF address = <<>> THEN FALSE
  ELSE IF StrLen(StripPrefix(address)) # AddressLen THEN FALSE
  ELSE TRUE

\* AptosAddress::is_valid
AptosIsValid(address) ==
  IF address = <<>> THEN FALSE
  ELSE IF StrLen(StripPrefix(address)) # AddressLen THEN FALSE
  ELSE TRUE

\* CitaAddress::is_valid
CitaIsValid(address) ==
  IF address = <<>> THEN FALSE
  ELSE IF StrLen(StripPrefix(address)) # AddressLen THEN FALSE
  ELSE TRUE

\* <A as Address>::is_valid(address, coin)
IsValid(chain, address) ==
  /\ call.stage = "none"
  /\ call' = [call EXCEPT !.stage = "validated", !.kind = chain, !.data = address,
                          !.first = Ok(IF chain = "SUI" THEN SuiIsValid(address)
                                       ELSE IF chain = "APTOS" THEN AptosIsValid(address)
                                       ELSE CitaIsValid(address))]
  /\ UNCHANGED <<wk, codec>>

NextAddress ==
  \E chain \in {"SUI", "APTOS", "CITA"}, a \in AddressInputs : IsValid(chain, a)

SpecAddress == InitKey /\ [][NextAddress]_vars

\* ------------------------------------------------------------------------
\* Coin registry (tcx-constants: coin_info.rs)
\* ------------------------------------------------------------------------
CoinInfo(coin, derivation_path, curve, network, seg_wit) ==
  [coin |-> coin, derivation_path |-> derivation_path, curve |-> curve,
   network |-> network, seg_wit |-> seg_wit]

\* COIN_INFOS: the entries of four coins, in the order they are pushed
COIN_INFOS ==
  << CoinInfo("BITCOIN", "m/44'/0'/0'/0/0", "CurveType::SECP256k1", "MAINNET", "NONE"),
     CoinInfo("BITCOIN", "m/44'/1'/0'/0/0", "CurveType::SECP256k1", "TESTNET", "NONE"),
     CoinInfo("BITCOIN", "m/49'/0'/0'/0/0", "CurveType::SECP256k1", "MAINNET", "P2WPKH"),
     CoinInfo("BITCOIN", "m/49'/1'/0'/0/0", "CurveType::SECP256k1", "TESTNET", "P2WPKH"),
     CoinInfo("TRON", "m/44'/195'/0'/0/0", "CurveType::SECP256k1", "", ""),
     CoinInfo("FILECOIN", "m/44'/461'/0'/0/0", "CurveType::SECP256k1", "MAINNET", ""),
     CoinInfo("FILECOIN", "m/44'/461'/0'/0/0", "CurveType::SECP256k1", "TESTNET", ""),
     CoinInfo("FILECOIN", "m/2334/461/0/0", "CurveType::BLS", "MAINNET", ""),
     CoinInfo("FILECOIN", "m/2334/461/0/0", "CurveType::BLS", "TESTNET", ""),
     CoinInfo("DOGECOIN", "m/44'/3'/0'/0/0", "CurveType::SECP256k1", "MAINNET", "NONE"),
     CoinInfo("DOGECOIN", "m/44'/3'/0'/0/0", "CurveType::SECP256k1", "MAINNET", "P2WPKH"),
     CoinInfo("DOGECOIN", "m/44'/1'/0'/0/0", "CurveType::SECP256k1", "TESTNET", "NONE"),
     CoinInfo("DOGECOIN", "m/44'/1'/0'/0/0", "CurveType::SECP256k1", "TESTNET", "P2WPKH") >>

\* CurveType::as_str
CurveAsStr(curve) ==
  IF curve = "CurveType::SECP256k1" THEN "SECP256k1"
  ELSE IF curve = "CurveType::ED25519" THEN "ED25519"
  ELSE IF curve = "CurveType::SubSr25519" THEN "SubSr25519"
  ELSE IF curve = "CurveType::BLS" THEN "BLS"
  ELSE "StarknetCurve"

\* the arguments of a lookup
LookupParams ==
  [chain_type : {"BITCOIN", "TRON", "FILECOIN", "MONERO"}, network : {"", "TESTNET"},
   seg_wit : {"", "P2WPKH"}, curve : {"", "BLS"}]

\* the closure handed to filter
FilterParam(x, p) ==
  /\ x.coin = p.chain_type
  /\ (x.network = p.network \/ p.network = "")
  /\ (x.seg_wit = p.seg_wit \/ p.seg_wit = "")
  /\ (CurveAsStr(x.curve) = p.curve \/ p.curve = "")

RECURSIVE FilterCollect(_, _)
\* coin_infos.iter().filter(..).map(|x| x.clone()).collect::<Vec<CoinInfo>>()
FilterCollect(infos, p) ==
  IF infos = <<>> THEN <<>>
  ELSE (IF FilterParam(Head(infos), p) THEN <<Head(infos)>> ELSE <<>>)
       \o FilterCollect(Tail(infos), p)

\* the first of the entries collected, instead of the last
TakeFirst(coins) ==
  IF coins = <<>> THEN Err("coin_info unsupported_chain") ELSE Ok(coins[1])

\* `if coins.is_empty() { Err(..) } else { Ok(coins.pop()) }`
PopResult(coins) ==
  IF coins = <<>> THEN Err("coin_info unsupported_chain") ELSE Ok(coins[Len(coins)])

IdleLookup == [pc |-> "idle", params |-> <<>>, coins |-> <<>>, out |-> NoResult]

\* `let coin_infos = COIN_INFOS.read();`: a read lock is granted while no
\* writer holds the lock
ReadLock(w, p) ==
  /\ wk[w].pc = "idle"
  /\ ~codec.writer
  /\ wk' = [wk EXCEPT ![w] = [@ EXCEPT !.pc = "locked", !.params = p]]
  /\ codec' = [codec EXCEPT !.readers = @ + 1]
  /\ UNCHANGED call

\* `let mut coins = coin_infos.iter()...collect()`
Collect(w) ==
  /\ wk[w].pc = "locked"
  /\ wk' = [wk EXCEPT ![w] = [@ EXCEPT !.pc = "collected",
                                       !.coins = FilterCollect(codec.infos, wk[w].params)]]
  /\ UNCHANGED <<call, codec>>

\* the result; the read guard is dropped when the function returns
ReturnCoin(w) ==
  /\ wk[w].pc = "collected"
  /\ wk' = [wk EXCEPT ![w] = [@ EXCEPT !.pc = "returned", !.out = PopResult(wk[w].coins)]]
  /\ codec' = [codec EXCEPT !.readers = @ - 1]
  /\ UNCHANGED call

InitRegistry ==
  /\ wk = [w \in {1, 2} |-> IdleLookup]
  /\ call = IdleCall
  /\ codec = [infos |-> COIN_INFOS, readers |-> 0, writer |-> FALSE]

NextRegistry ==
  \/ \E w \in DOMAIN wk, p \in LookupParams : ReadLock(w, p)
  \/ \E w \in DOMAIN wk : Collect(w)
  \/ \E w \in DOMAIN wk : ReturnCoin(w)

SpecRegistry == InitRegistry /\ [][NextRegistry]_vars

\* ------------------------------------------------------------------------
\* Solana message compilation (tcx-solana: construct_transaction.rs)
\* ------------------------------------------------------------------------
\* A Pubkey is a number; the order of the numbers is the order of the keys.
AccountMeta(pubkey, is_signer, is_writable) ==
  [pubkey |-> pubkey, is_signer |-> is_signer, is_writable |-> is_writable]

SolanaInstruction(program_id, accounts) ==
  [program_id |-> program_id, accounts |-> accounts]

\* `as u8`
AsU8(n) == n % 256

\* the keys key_meta_map holds after the first loop
MetaKeys(instructions) ==
  UNION { {instructions[i].program_id}
          \cup {instructions[i].accounts[j].pubkey : j \in 1..Len(instructions[i].accounts)}
          : i \in 1..Len(instructions) }

\* key_meta_map after the first loop and the removal of the payer
KeyMetaMap(instructions, payer) ==
  [k \in MetaKeys(instructions) \ {payer} |->
     [is_signer |-> \E i \in 1..Len(instructions) :
                      \E j \in 1..Len(instructions[i].accounts) :
                        /\ instructions[i].accounts[j].pubkey = k
                        /\ instructions[i].accounts[j].is_signer,
      is_writable |-> \E i \in 1..Len(instructions) :
                        \E j \in 1..Len(instructions[i].accounts) :
                          /\ instructions[i].accounts[j].pubkey = k
                          /\ instructions[i].accounts[j].is_writable]]

\* the keys of a set in the order a BTreeMap iterates over them
InKeyOrder(keys) ==
  [i \in 1..Cardinality(keys) |->
     CHOOSE k \in keys : Cardinality({other \in keys : other < k}) = i - 1]

\* key_meta_map.iter().filter(..).map(|(key, _)| key.clone()).collect()
KeysWith(map, is_signer, is_writable) ==
  InKeyOrder({k \in DOMAIN map :
                map[k].is_signer = is_signer /\ map[k].is_writable = is_writable})

\* position(keys, key)
Position(keys, key) ==
  AsU8((CHOOSE i \in 1..Len(keys) :
          keys[i] = key /\ \A j \in 1..(i - 1) : keys[j] # key) - 1)

\* message_from_instructions (the blockhash and the data of the instructions
\* are copied and left out)
MessageFromInstructions(instructions, payer) ==
  LET map == KeyMetaMap(instructions, payer)
      writable_signer_keys == <<payer>> \o KeysWith(map, TRUE, TRUE)
      readonly_signer_keys == KeysWith(map, TRUE, FALSE)
      writable_non_signer_keys == KeysWith(map, FALSE, TRUE)
      readonly_non_signer_keys == KeysWith(map, FALSE, FALSE)
      static_account_keys == writable_signer_keys \o readonly_signer_keys
                             \o writable_non_signer_keys \o readonly_non_signer_keys
  IN  [header |->
         [num_required_signatures |->
            AsU8(Len(writable_signer_keys) + Len(readonly_signer_keys)),
          num_readonly_signed_accounts |-> AsU8(Len(readonly_signer_keys)),
          num_readonly_unsigned_accounts |-> AsU8(Len(readonly_non_signer_keys))],
       account_keys |-> static_account_keys,
       instructions |->
         [i \in 1..Len(instructions) |->
            [program_id_index |-> Position(static_account_keys, instructions[i].program_id),
             accounts |-> [j \in 1..Len(instructions[i].accounts) |->
                             Position(static_account_keys,
                                      instructions[i].accounts[j].pubkey)]]]]

\* the account metas the instructions are made of
MetaSamples ==
  { AccountMeta(1, TRUE, TRUE), AccountMeta(1, FALSE, FALSE), AccountMeta(2, TRUE, FALSE),
    AccountMeta(2, FALSE, TRUE), AccountMeta(3, FALSE, FALSE), AccountMeta(3, TRUE, TRUE) }

InstructionSamples ==
  {SolanaInstruction(p, a) :
     p \in {3, 4}, a \in UNION {[1..n -> MetaSamples] : n \in 0..2}}

\* an instruction over 299 accounts, more than an index of 8 bits can tell apart
WideInstruction ==
  SolanaInstruction(4, [j \in 1..299 |-> AccountMeta(10 + j, FALSE, j % 2 = 0)])

InstructionLists ==
  UNION {[1..n -> InstructionSamples] : n \in 0..2} \cup {<<WideInstruction>>}

\* message_from_instructions(instructions, payer, blockhash)
Compile(instructions, payer) ==
  /\ call.stage = "none"
  /\ call' = [call EXCEPT !.stage = "compiled", !.data = instructions, !.payer = payer,
                          !.first = Ok(MessageFromInstructions(instructions, payer))]
  /\ UNCHANGED <<wk, codec>>

NextSolana ==
  \E ixs \in InstructionLists, payer \in {1, 5} : Compile(ixs, payer)

SpecSolana == InitKey /\ [][NextSolana]_vars

\* ------------------------------------------------------------------------
\* Extended-key codec: encode, then decode what was encoded
\* ------------------------------------------------------------------------
ChildNumberSamples == {Normal(0), Normal(2147483647), Hardened(0), Hardened(2147483647)}

XPubKeys ==
  {Sm2ExtendedPubKey(d, fp, cn, pk, cc) :
     d \in {0, 255}, fp \in {<<0>>, <<200>>}, cn \in ChildNumberSamples,
     pk \in {<<2, 54>>, <<0, 0>>, <<255, 1>>}, cc \in {<<0>>, <<9>>}}

XPrivKeys ==
  {Sm2ExtendedPrivKey(d, fp, cn, sk, cc) :
     d \in {0, 255}, fp \in {<<0>>, <<200>>}, cn \in ChildNumberSamples,
     sk \in {<<0>>, <<5>>, <<255>>}, cc \in {<<0>>, <<9>>}}

Versions == {<<0>>, <<4>>, <<255>>, <<>>}

\* ToHex::to_hex / Ss58Codec::to_ss58check_with_version
EncodeKey(form, key, version) ==
  IF form = "hex" THEN Ok(ToHex(key))
  ELSE IF form = "pub58" THEN PubToSs58check(key, version)
  ELSE PrivToSs58check(key, version)

\* FromHex::from_hex / Ss58Codec::from_ss58check_with_version
DecodeKey(form, text) ==
  IF form = "hex"
    THEN LET r == FromHex(text)
         IN  IF r.ok THEN Ok([key |-> r.val, version |-> <<>>]) ELSE r
  ELSE IF form = "pub58" THEN PubFromSs58check(text)
  ELSE PrivFromSs58check(text)

Encode(form, key, version) ==
  /\ codec.stage = "none"
  /\ codec' = [codec EXCEPT !.stage = "encoded", !.form = form, !.key = key,
                            !.version = version,
                            !.text = EncodeKey(form, key, version)]
  /\ UNCHANGED <<wk, call>>

Decode ==
  /\ codec.stage = "encoded"
  /\ codec.text.ok
  /\ codec' = [codec EXCEPT !.stage = "decoded",
                            !.back = DecodeKey(codec.form, codec.text.val)]
  /\ UNCHANGED <<wk, call>>

\* the bytes an encoder puts into the text, before hex / base58check
PayloadOf(form, key, version) ==
  IF form = "hex" THEN EncodeCommon(key) \o Sm2PublicKeyToBytes(key.public_key)
  ELSE IF form = "pub58"
    THEN version \o EncodeCommon(key) \o Sm2PublicKeyToBytes(key.public_key)
  ELSE version \o EncodeCommon(key) \o <<0>> \o Sm2PrivateKeyToBytes(key.private_key)

\* payloads given to the decoders: those of two keys, whole, cut short by one
\* byte or more, and longer by one byte
Payloads ==
  LET whole == {PayloadOf("hex", Sm2ExtendedPubKey(1, <<7>>, Normal(1), <<2, 54>>, <<9>>), <<>>),
                PayloadOf("priv58", Sm2ExtendedPrivKey(1, <<7>>, Hardened(1), <<5>>, <<9>>), <<4>>)}
  IN  UNION {{SubSeq(p, 1, n) : n \in 0..Len(p)} \cup {p \o <<0>>, p \o <<0, 0>>} : p \in whole}

\* hex::encode / base58::check_encode_slice of a payload
TextOf(form, payload) ==
  IF form = "hex" THEN HexEncode(payload) ELSE CheckEncodeSlice(payload)

\* from_hex / from_ss58check_with_version on a text that encodes the payload
DecodePayload(form, payload) ==
  /\ codec.stage = "none"
  /\ codec' = [codec EXCEPT !.stage = "given", !.form = form, !.payload = payload,
                            !.text = Ok(TextOf(form, payload)),
                            !.back = DecodeKey(form, TextOf(form, payload))]
  /\ UNCHANGED <<wk, call>>

InitCodec ==
  /\ wk = [w \in {1} |-> IdleWorker]
  /\ call = IdleCall
  /\ codec = IdleCodec

NextCodec ==
  \/ \E k \in XPubKeys : Encode("hex", k, <<>>)
  \/ \E k \in XPubKeys, v \in Versions : Encode("pub58", k, v)
  \/ \E k \in XPrivKeys, v \in Versions : Encode("priv58", k, v)
  \/ Decode
  \/ \E f \in {"hex", "pub58", "priv58"}, p \in Payloads : DecodePayload(f, p)

SpecCodec == InitCodec /\ [][NextCodec]_vars

\* ------------------------------------------------------------------------
\* Child numbers: a 32-bit value made a ChildNumber, and the ChildNumber used
\* ------------------------------------------------------------------------
\* 32-bit values as their four big-endian bytes
U32Inputs == [1..4 -> {0, 1, 127, 128, 255}]

\* the keys the child number is used with
ChildNumberParent == Sm2ExtendedPrivKey(1, <<7>>, Normal(1), <<5>>, <<9>>)

\* ChildNumber::from(x), then u32::from(child_number)
ConvertChildNumber(x) ==
  /\ codec.stage = "none"
  /\ codec' = [codec EXCEPT !.stage = "converted", !.payload = x,
                            !.cn = ChildNumberFromBeBytes(x),
                            !.u32 = ChildNumberToBeBytes(ChildNumberFromBeBytes(x))]
  /\ UNCHANGED <<wk, call>>

\* ckd_priv / ckd_pub of a key with the child number
CkdWithChildNumber(kind) ==
  /\ codec.stage = "converted"
  /\ \E r \in (IF kind = "priv" THEN CkdPriv(ChildNumberParent, codec.cn)
               ELSE CkdPub(FromPrivate(ChildNumberParent).val, codec.cn)) :
       codec' = [codec EXCEPT !.stage = "stepped", !.form = kind, !.back = r]
  /\ UNCHANGED <<wk, call>>

\* to_hex / to_ss58check_with_version of a key that has the child number
WriteChildNumber(form) ==
  /\ codec.stage = "converted"
  /\ LET pub == [FromPrivate(ChildNumberParent).val EXCEPT !.child_number = codec.cn]
         prv == [ChildNumberParent EXCEPT !.child_number = codec.cn]
     IN  codec' = [codec EXCEPT !.stage = "written", !.form = form,
                     !.key = IF form = "priv58" THEN prv ELSE pub,
                     !.version = IF form = "hex" THEN <<>> ELSE <<4>>,
                     !.text = EncodeKey(form, IF form = "priv58" THEN prv ELSE pub,
                                        <<4>>)]
  /\ UNCHANGED <<wk, call>>

NextChildNumber ==
  \/ \E x \in U32Inputs : ConvertChildNumber(x)
  \/ \E kind \in {"priv", "pub"} : CkdWithChildNumber(kind)
  \/ \E form \in {"hex", "pub58", "priv58"} : WriteChildNumber(form)

SpecChildNumber == InitCodec /\ [][NextChildNumber]_vars

\* ------------------------------------------------------------------------
\* A base58check string that is changed in one place before it is decoded
\* ------------------------------------------------------------------------
\* the characters a changed place may hold: the alphabet and two outside it
CorruptChars == {Base58Chars[i] : i \in DOMAIN Base58Chars} \cup {"0", "l"}

CorruptPubKeys ==
  {Sm2ExtendedPubKey(d, <<200>>, Hardened(0), pk, <<9>>) :
     d \in {0, 255}, pk \in {<<2, 54>>}}

CorruptPrivKeys ==
  {Sm2ExtendedPrivKey(d, <<200>>, Normal(0), sk, <<9>>) :
     d \in {0, 255}, sk \in {<<5>>}}

\* one character of the encoded string is replaced by another
Corrupt(pos, ch) ==
  /\ codec.stage = "encoded"
  /\ codec.text.ok
  /\ pos \in 1..Len(codec.text.val)
  /\ ch # codec.text.val[pos]
  /\ codec' = [codec EXCEPT !.stage = "corrupted",
                            !.text = Ok([codec.text.val EXCEPT ![pos] = ch])]
  /\ UNCHANGED <<wk, call>>

\* Ss58Codec::from_ss58check_with_version on the changed string
DecodeCorrupted ==
  /\ codec.stage = "corrupted"
  /\ codec' = [codec EXCEPT !.stage = "redecoded",
                            !.back = DecodeKey(codec.form, codec.text.val)]
  /\ UNCHANGED <<wk, call>>

NextCorrupt ==
  \/ \E k \in CorruptPubKeys : Encode("pub58", k, <<4>>)
  \/ \E k \in CorruptPrivKeys : Encode("priv58", k, <<4>>)
  \/ \E pos \in 1..(2 * PubSs58PayloadLen), ch \in CorruptChars : Corrupt(pos, ch)
  \/ DecodeCorrupted

SpecCorrupt == InitCodec /\ [][NextCorrupt]_vars

\* ========================================================================
\* Claims
\* ========================================================================
Workers == DOMAIN wk

\* derive() was called and has returned
Finished(w) == wk[w].pc \in {"done", "failed"}

\* the derivation steps a caller has taken: step j led from trail[j] to trail[j+1]
Steps(w) == 1..(Len(wk[w].trail) - 1)

\* C1 (as claimed): CKD consistency. For every normal step of a private
\* derivation from parent E with index i to child E', the public key derived
\* from the public parent, from_private(E).ckd_pub(i), equals from_private(E')
\* in every field.
C1_CkdConsistency ==
  \A w \in Workers :
    wk[w].kind = "priv" =>
      \A j \in Steps(w) :
        LET parent == FromPrivate(wk[w].trail[j])
            child  == FromPrivate(wk[w].trail[j + 1])
            i      == wk[w].nums[j]
        IN  (~i.hardened /\ parent.ok /\ child.ok) =>
              \A r \in CkdPub(parent.val, i) : r.ok => r.val = child.val

\* C2 (as claimed): hardened exclusion. A public derivation over a path that
\* holds a hardened index at any position ends in the error
\* CannotDeriveFromHardenedKey and returns no key.
C2_HardenedExclusion ==
  \A w \in Workers :
    (/\ wk[w].kind = "pub"
     /\ Finished(w)
     /\ \E j \in 1..Len(wk[w].nums) : wk[w].nums[j].hardened)
    => (~wk[w].out.ok /\ wk[w].out.err = "CannotDeriveFromHardenedKey")

\* C3 (as claimed): depth monotonicity. A root made from a seed has depth 0 and
\* every successful ckd step, from every parent depth 0..255, yields a child
\* whose depth is the parent's depth plus exactly 1.
C3_DepthPlusOne ==
  \A w \in Workers :
    /\ (wk[w].pc \in {"ready", "deriving", "done"} /\ wk[w].root.src = "seed")
         => wk[w].self.depth = 0
    /\ \A j \in Steps(w) : wk[w].trail[j + 1].depth = wk[w].trail[j].depth + 1

SameResult(a, b) == a.ok = b.ok /\ a.err = b.err /\ (a.ok => a.val = b.val)

\* C4: determinism. Two runs of from_seed(s) followed by derive(p), for the same
\* seed and the same path, end in the same result: the same extended key in
\* every field, or the same error; whatever the other caller was doing.
C4_Determinism ==
  \A w1 \in Workers, w2 \in Workers :
    (/\ Finished(w1) /\ Finished(w2)
     /\ wk[w1].root = wk[w2].root
     /\ wk[w1].path = wk[w2].path)
    => SameResult(wk[w1].out, wk[w2].out)

\* two callers have derived the same two-component path from the same seed
C4_Witness ==
  /\ wk[1].pc = "done" /\ wk[2].pc = "done"
  /\ wk[1].root = wk[2].root
  /\ wk[1].path = wk[2].path
  /\ Len(wk[1].nums) = 2
  /\ wk[1].out.val.depth = 2

\* C5: key round trip. For every key that from_slice accepted, private or
\* public, SM2 or Starknet, from_slice(to_bytes(key)) succeeds and the key it
\* yields has the same bytes.
C5_KeyRoundTrip ==
  call.stage = "reparsed" =>
    /\ call.second.ok
    /\ ToBytes(call.curve, call.kind, call.second.val) = call.bytes
    /\ call.second.val = call.first.val

\* a key made from a slice that is not its canonical encoding was serialized and
\* parsed again
C5_Witness ==
  /\ call.stage = "reparsed"
  /\ call.second.ok
  /\ call.data # call.bytes

\* C6: extended-key encoding round trip. from_hex(to_hex(k)) returns k in every
\* field, and from_ss58check_with_version(to_ss58check_with_version(k, v))
\* returns k in every field and v byte for byte, for every version of the
\* version's length.
C6_CodecRoundTrip ==
  codec.stage = "decoded" =>
    /\ codec.back.ok
    /\ codec.back.val.key = codec.key
    /\ codec.back.val.version = codec.version

\* a private key of depth 255 with a hardened child number went through base58check
C6_Witness ==
  /\ codec.stage = "decoded"
  /\ codec.form = "priv58"
  /\ codec.key.depth = 255
  /\ codec.key.child_number = Hardened(2147483647)
  /\ codec.version = <<4>>
  /\ codec.back.ok

\* C7 (as claimed): base58check corruption. Changing any single character of a
\* string made by to_ss58check_with_version makes from_ss58check_with_version
\* fail with InvalidBase58; no key is returned.
C7_CorruptionRejected ==
  codec.stage = "redecoded" =>
    (~codec.back.ok /\ codec.back.err = "InvalidBase58")

\* what a path splits into, without the leading "m"
PathComponents(path) ==
  LET parts == Split(path, "/")
  IN  IF parts # <<>> /\ parts[1] = <<"m">> THEN Tail(parts) ELSE parts

\* a decimal integer optionally followed by '
WellFormedComponent(c) ==
  LET body == IF c # <<>> /\ c[Len(c)] = "'" THEN SubSeq(c, 1, Len(c) - 1) ELSE c
  IN  body # <<>> /\ \A i \in 1..Len(body) : IsDigit(body[i])

\* C8 (as claimed): malformed path. derive() on a path with a component that is
\* not a decimal integer optionally followed by ' fails with
\* InvalidDerivationPathFormat.
C8_MalformedPathRejected ==
  \A w \in Workers :
    (/\ wk[w].pc \in {"deriving", "done", "failed"}
     /\ \E j \in 1..Len(PathComponents(wk[w].path)) :
          ~WellFormedComponent(PathComponents(wk[w].path)[j]))
    => (/\ wk[w].pc = "failed"
        /\ wk[w].out.err = "InvalidDerivationPathFormat")

\* the order of the group of the curve
ScalarOrder(curve) == IF curve = "SM2" THEN GroupOrder ELSE StarkOrder

\* a slice of the scalar's length whose value is in 1..order-1
ValidScalar(curve, data) ==
  /\ Len(data) = ScalarLen
  /\ BytesToInt(data) > 0
  /\ BytesToInt(data) < ScalarOrder(curve)

\* C9 (as claimed): PrivateKey::from_slice returns a key only for in-range
\* scalars; the empty slice, a slice of another length, zero and a value not
\* below the group order are errors.
C9_PrivFromSliceRejectsInvalid ==
  (call.kind = "priv" /\ call.stage # "none") =>
    (call.first.ok => ValidScalar(call.curve, call.data))

\* a slice that encodes a point of the curve
ValidPoint(curve, data) ==
  IF curve = "SM2"
    THEN /\ Len(data) = PubKeyLen
         /\ CheckPoint(BytesToInt(Slice(data, 0, ScalarLen)),
                       BytesToInt(Slice(data, ScalarLen, PubKeyLen)))
    ELSE /\ Len(data) = ScalarLen
         /\ BytesToInt(data) < StarkPrime
         /\ StarkOnCurve(BytesToInt(data))

\* C10 (as claimed): PublicKey::from_slice returns the error InvalidPublicKey
\* for every slice of the wrong length and every slice that is not a point of
\* the curve.
C10_PubFromSliceRejectsMalformed ==
  (call.kind = "pub" /\ call.stage # "none" /\ ~ValidPoint(call.curve, call.data)) =>
    (~call.first.ok /\ call.first.err = "InvalidPublicKey")

\* the length of the digest a curve signs
DigestLen(curve) == ScalarLen

\* C11 (as claimed): sign and sign_recoverable return the error InvalidMessage
\* for every message whose length is not the digest length of the curve, and
\* sign_recoverable fails exactly when sign fails.
C11_WrongLengthMessageRejected ==
  call.stage = "signed" =>
    /\ Len(call.msg) # DigestLen(call.curve) =>
         /\ ~call.sig.ok /\ call.sig.err = "InvalidMessage"
         /\ ~call.sigrec.ok /\ call.sigrec.err = "InvalidMessage"
    /\ call.sig.ok = call.sigrec.ok

\* C12 (as claimed): typed dispatch is total. KeyManage::private_key_from_slice
\* and public_key_from_slice, and every operation of a typed key, either route
\* to the adapter of the tag or return the error InvalidCurveType; none faults.
C12_TypedDispatchTotal ==
  /\ call.stage \in {"typed", "dispatched"} =>
       /\ call.first.err # "panic"
       /\ call.curve # "SECP256k1" =>
            (~call.first.ok /\ call.first.err = "InvalidCurveType")
  /\ call.stage = "dispatched" => call.second.err # "panic"

\* the key of the HMAC of from_seed: b"Cita seed"
DomainKey == <<67, 105, 116, 97, 32, 115, 101, 101, 100>>

\* the root key the claim describes for a seed
RootOfSeed(seed) ==
  [depth |-> 0,
   parent_fingerprint |-> [i \in 1..FingerprintLen |-> 0],
   child_number |-> [hardened |-> FALSE, index |-> 0],
   private_key |-> SubSeq(HmacSha512(DomainKey, seed), 1, ScalarLen),
   chain_code |-> SubSeq(HmacSha512(DomainKey, seed), ScalarLen + 1, 2 * ScalarLen)]

\* C13: root construction. from_seed(seed) returns the key of depth 0, zero
\* parent fingerprint, child number 0, scalar the left half and chain code the
\* right half of HMAC-SHA512(b"Cita seed", seed); from_mnemonic(phrase) returns
\* from_seed of the BIP39 seed of the phrase with the empty passphrase.
C13_RootConstruction ==
  \A w \in Workers :
    /\ (wk[w].pc # "idle" /\ wk[w].kind = "priv" /\ wk[w].root.src = "seed")
         => (wk[w].pc # "noroot" /\ wk[w].self = RootOfSeed(wk[w].root.data))
    /\ (wk[w].pc \notin {"idle", "noroot"} /\ wk[w].root.src = "mnemonic")
         => wk[w].self = RootOfSeed(Bip39Seed(wk[w].root.data, <<>>))

\* a root was made from a seed and another from a phrase
C13_Witness ==
  \E w \in Workers :
    /\ wk[w].pc = "ready"
    /\ wk[w].root.src = "mnemonic"
    /\ wk[w].self.depth = 0
    /\ wk[w].self.private_key # wk[w].self.chain_code

\* a component without its hardened suffix
ComponentBody(c) ==
  IF c # <<>> /\ c[Len(c)] = "'" THEN SubSeq(c, 1, Len(c) - 1) ELSE c

RECURSIVE DecimalValue(_, _)
\* the value of a string of digits, or -1 when it is 2^31 or more
DecimalValue(body, acc) ==
  IF body = <<>> THEN acc
  ELSE LET d == CHOOSE n \in 0..9 : Digits[n + 1] = body[1]
       IN  IF acc = -1 \/ acc > 214748364 \/ (acc = 214748364 /\ d >= 8) THEN -1
           ELSE DecimalValue(Tail(body), acc * 10 + d)

\* a decimal component whose value is below 2^31
InRange(c) == WellFormedComponent(c) /\ DecimalValue(ComponentBody(c), 0) # -1

\* a decimal component whose value is 2^31 or more
TooLarge(c) == WellFormedComponent(c) /\ DecimalValue(ComponentBody(c), 0) = -1

\* C14 (as claimed): child-number range check in paths. derive() on a path
\* whose first component that is not a decimal below 2^31 is a decimal of 2^31
\* or more, with or without the hardened suffix, fails with InvalidChildNumber
\* or OverflowChildNumber; a path of decimals below 2^31 parses to the normal
\* index of every component without suffix and the hardened index of every
\* component with it.
C14_ChildNumberRange ==
  \A w \in Workers :
    wk[w].pc \in {"deriving", "done", "failed"} =>
      LET cs == PathComponents(wk[w].path)
      IN  /\ (\E j \in 1..Len(cs) :
                TooLarge(cs[j]) /\ \A i \in 1..(j - 1) : InRange(cs[i]))
               => (/\ wk[w].pc = "failed"
                   /\ wk[w].out.err \in {"InvalidChildNumber", "OverflowChildNumber"})
          /\ (\A j \in 1..Len(cs) : InRange(cs[j]))
               => (/\ Len(wk[w].nums) = Len(cs)
                   /\ \A j \in 1..Len(cs) :
                        wk[w].nums[j] =
                          [hardened |-> cs[j][Len(cs[j])] = "'",
                           index |-> DecimalValue(ComponentBody(cs[j]), 0)])

\* C15 (as claimed): leading-m stripping. derive("m") and derive("m/") succeed
\* and return the receiver unchanged, and derive("m/" + p) for a path p of
\* index components derives along the same child numbers as derive(p).
C15_LeadingMStripped ==
  \A w \in Workers :
    wk[w].pc \in {"deriving", "done", "failed"} =>
      /\ wk[w].path \in {<<"m">>, <<"m", "/">>} =>
           /\ wk[w].pc # "failed"
           /\ wk[w].nums = <<>>
           /\ wk[w].pc = "done" => wk[w].out = Ok(wk[w].self)
      /\ (/\ Len(wk[w].path) > 2
          /\ SubSeq(wk[w].path, 1, 2) = <<"m", "/">>
          /\ \A j \in 1..Len(PathComponents(wk[w].path)) :
               InRange(PathComponents(wk[w].path)[j]))
           => (/\ ParsePath(SubSeq(wk[w].path, 3, Len(wk[w].path))).ok
               /\ wk[w].nums = ParsePath(SubSeq(wk[w].path, 3, Len(wk[w].path))).val)

\* the exact length of the payload a decoder takes
ExactLen(form) ==
  LET common == 1 + FingerprintLen + 4 + ChainCodeLen
  IN  IF form = "hex" THEN common + PubKeyLen
      ELSE IF form = "pub58" THEN VersionLen + common + PubKeyLen
      ELSE VersionLen + common + 1 + ScalarLen

\* C16 (as claimed): decoding validates exact length. from_hex and
\* from_ss58check_with_version, given a text whose decoded payload has not
\* exactly the length of the target key kind, return the error InvalidBase58 or
\* InvalidKeyLength and no key.
C16_ExactLengthValidated ==
  (codec.stage = "given" /\ Len(codec.payload) # ExactLen(codec.form))
    => (/\ ~codec.back.ok
        /\ codec.back.err \in {"InvalidBase58", "InvalidKeyLength"})

\* C17: no partial result on error. A derive() that fails returns an error
\* and no key, and leaves the receiver as it was; when a component does not
\* parse, the call fails before any derivation step has run; a derive() that
\* returns a key has run one step for every component of the path.
C17_NoPartialResult ==
  \A w \in Workers :
    wk[w].pc \in {"deriving", "done", "failed"} =>
      LET cs == PathComponents(wk[w].path)
      IN  /\ wk[w].self = RootKey(wk[w].root).val
          /\ wk[w].pc = "failed" => (~wk[w].out.ok /\ wk[w].out.val = <<>>)
          /\ (\E j \in 1..Len(cs) : ~ChildNumberFromStr(cs[j]).ok)
               => (wk[w].pc = "failed" /\ wk[w].trail = <<>>)
          /\ wk[w].pc = "done"
               => (/\ Len(wk[w].trail) = Len(cs) + 1
                   /\ wk[w].out = Ok(wk[w].trail[Len(cs) + 1]))

\* a derive() failed at its second step, after a first step that made a key
C17_Witness ==
  \E w \in Workers :
    /\ wk[w].pc = "failed"
    /\ Len(wk[w].trail) = 2
    /\ wk[w].trail[2] # wk[w].self
    /\ Len(wk[w].nums) = 2

RECURSIVE RunAlone(_, _, _)
\* the results of derive_priv / derive_pub over child numbers, run on its own
RunAlone(kind, key, nums) ==
  IF nums = <<>> THEN {Ok(key)}
  ELSE UNION { IF r.ok THEN RunAlone(kind, r.val, Tail(nums)) ELSE {r} :
               r \in (IF kind = "priv" THEN CkdPriv(key, nums[1])
                      ELSE CkdPub(key, nums[1])) }

\* C18: concurrent derivation is coordination-free. When two callers derive
\* from roots side by side, in every interleaving each derive() that has
\* finished returned a result it returns when run alone on its root and path,
\* and the root of every caller is as it was made.
C18_CoordinationFree ==
  \A w \in Workers :
    /\ wk[w].pc \in {"ready", "deriving", "done", "failed"}
         => wk[w].self = RootKey(wk[w].root).val
    /\ Finished(w) =>
         IF ParsePath(wk[w].path).ok
           THEN wk[w].out \in RunAlone(wk[w].kind, wk[w].self, ParsePath(wk[w].path).val)
           ELSE wk[w].out = ParsePath(wk[w].path)

\* one caller has derived a two-component path while another, on the same root
\* and another path, is between its two steps
C18_Witness ==
  /\ wk[1].pc = "done" /\ Len(wk[1].nums) = 2
  /\ wk[2].pc = "deriving" /\ Len(wk[2].nums) = 2 /\ Len(wk[2].trail) = 2
  /\ wk[1].root = wk[2].root
  /\ wk[1].path # wk[2].path
  /\ wk[1].trail[2] # wk[2].trail[2]

\* C19 (as claimed): public_key is a total deterministic function. For every
\* private key from_slice accepted, SM2 or Starknet, public_key() returns a
\* public key without faulting, a second call returns the same key, and the
\* private key has the bytes it had before.
C19_PublicKeyTotal ==
  call.stage = "derived" =>
    /\ call.pub.ok
    /\ call.pubagain = call.pub
    /\ ToBytes(call.curve, "priv", call.first.val) = call.bytes

\* byte i (from 0) of a hex text
HexByteAt(text, i) ==
  LET hi == CHOOSE n \in 0..15 : HexDigits[n + 1] = text[2 * i + 1]
      lo == CHOOSE n \in 0..15 : HexDigits[n + 1] = text[2 * i + 2]
  IN  16 * hi + lo

\* bytes from..to-1 of a hex text
HexBytes(text, from, to) == [i \in 1..(to - from) |-> HexByteAt(text, from + i - 1)]

\* the four bytes of a child number as a big-endian 32-bit integer, the top bit
\* set for a hardened one
ChildNumberBe(cn) ==
  << (cn.index \div 16777216) + (IF cn.hardened THEN 128 ELSE 0),
     (cn.index \div 65536) % 256, (cn.index \div 256) % 256, cn.index % 256 >>

\* the offsets of the raw layout: 1, 5, 9, 41 and 105 in the program
LayoutFp == 1
LayoutCn == LayoutFp + FingerprintLen
LayoutCc == LayoutCn + 4
LayoutPk == LayoutCc + ChainCodeLen
LayoutEnd == LayoutPk + PubKeyLen

\* C20: raw-hex layout. to_hex of an extended public key is the lower-case hex
\* text of depth, parent fingerprint, child number as a big-endian 32-bit
\* integer, chain code and public key, in this order and without a version
\* byte; from_hex, when it returns a key, has read each field from the same
\* offsets of the payload.
C20_RawHexLayout ==
  /\ (codec.stage \in {"encoded", "decoded"} /\ codec.form = "hex") =>
       /\ codec.text.ok
       /\ Len(codec.text.val) = 2 * LayoutEnd
       /\ \A i \in 1..Len(codec.text.val) :
            \E n \in 1..16 : HexDigits[n] = codec.text.val[i]
       /\ HexByteAt(codec.text.val, 0) = codec.key.depth
       /\ HexBytes(codec.text.val, LayoutFp, LayoutCn) = codec.key.parent_fingerprint
       /\ HexBytes(codec.text.val, LayoutCn, LayoutCc) = ChildNumberBe(codec.key.child_number)
       /\ HexBytes(codec.text.val, LayoutCc, LayoutPk) = codec.key.chain_code
       /\ HexBytes(codec.text.val, LayoutPk, LayoutEnd) = codec.key.public_key
  /\ (codec.stage = "given" /\ codec.form = "hex" /\ codec.back.ok) =>
       LET p == codec.payload
           k == codec.back.val.key
       IN  /\ Len(p) = LayoutEnd
           /\ k.depth = p[1]
           /\ k.parent_fingerprint = SubSeq(p, LayoutFp + 1, LayoutCn)
           /\ ChildNumberBe(k.child_number) = SubSeq(p, LayoutCn + 1, LayoutCc)
           /\ k.chain_code = SubSeq(p, LayoutCc + 1, LayoutPk)
           /\ k.public_key = SubSeq(p, LayoutPk + 1, LayoutEnd)

\* a public key of depth 255 with the largest hardened child number was written
\* by to_hex and read back by from_hex
C20_Witness ==
  /\ codec.stage = "decoded"
  /\ codec.form = "hex"
  /\ codec.key.depth = 255
  /\ codec.key.child_number = Hardened(2147483647)
  /\ codec.back.ok

\* the payload the claim describes: version, depth, parent fingerprint, child
\* number big-endian, chain code, key bytes
LayoutPayload(version, key, key_bytes) ==
  version \o <<key.depth>> \o key.parent_fingerprint
  \o ChildNumberBe(key.child_number) \o key.chain_code \o key_bytes

\* C21: base58-check payload layout. The payload to_ss58check_with_version
\* encodes is version, depth, parent fingerprint, child number big-endian,
\* chain code and key bytes, the key bytes being a zero byte and the scalar for
\* a private key and the raw point for a public key; from_ss58check_with_version,
\* when it returns a key, has read every field from the same offsets.
C21_Base58PayloadLayout ==
  /\ (codec.stage \in {"encoded", "decoded"} /\ codec.form = "pub58" /\ codec.text.ok) =>
       /\ FromCheck(codec.text.val).ok
       /\ FromCheck(codec.text.val).val
            = LayoutPayload(codec.version, codec.key, codec.key.public_key)
       /\ Len(FromCheck(codec.text.val).val) = VersionLen + LayoutEnd
  /\ (codec.stage \in {"encoded", "decoded"} /\ codec.form = "priv58" /\ codec.text.ok) =>
       /\ FromCheck(codec.text.val).ok
       /\ FromCheck(codec.text.val).val
            = LayoutPayload(codec.version, codec.key, <<0>> \o codec.key.private_key)
       /\ Len(FromCheck(codec.text.val).val) = VersionLen + LayoutPk + 1 + ScalarLen
  /\ (codec.stage = "given" /\ codec.form \in {"pub58", "priv58"} /\ codec.back.ok) =>
       LET p == codec.payload
           k == codec.back.val.key
           v == VersionLen
       IN  /\ codec.back.val.version = SubSeq(p, 1, v)
           /\ k.depth = p[v + 1]
           /\ k.parent_fingerprint = SubSeq(p, v + LayoutFp + 1, v + LayoutCn)
           /\ ChildNumberBe(k.child_number) = SubSeq(p, v + LayoutCn + 1, v + LayoutCc)
           /\ k.chain_code = SubSeq(p, v + LayoutCc + 1, v + LayoutPk)
           /\ codec.form = "pub58" =>
                (Len(p) = v + LayoutEnd /\ k.public_key = SubSeq(p, v + LayoutPk + 1, Len(p)))
           /\ codec.form = "priv58" =>
                (/\ Len(p) = v + LayoutPk + 1 + ScalarLen
                 /\ k.private_key = SubSeq(p, v + LayoutPk + 2, Len(p)))

\* a private key with the largest normal child number was encoded under the
\* version 255 and decoded
C21_Witness ==
  /\ codec.stage = "decoded"
  /\ codec.form = "priv58"
  /\ codec.version = <<255>>
  /\ codec.key.child_number = Normal(2147483647)
  /\ codec.key.private_key = <<5>>
  /\ codec.back.ok

\* IL: the left half of the HMAC output of the step from a parent with index i
LeftHalf(kind, parent, i) ==
  LET data == IF kind = "pub" THEN parent.public_key
              ELSE IF i.hardened THEN <<0>> \o parent.private_key
              ELSE Sm2PublicKeyOf(parent.private_key).val
  IN  SubSeq(HmacSha512(parent.chain_code, data \o ChildNumberBe(i)), 1, ScalarLen)

\* C22 (as claimed): derivation failure is checked and surfaced. A step of
\* ckd_priv or ckd_pub returns a child key only when the left half of the HMAC
\* output is a scalar in 1..n-1 and the child key is valid (a scalar in 1..n-1,
\* a point of the curve); otherwise it returns an error.
C22_DerivationFailureSurfaced ==
  \A w \in Workers :
    \A j \in Steps(w) :
      /\ ValidScalar("SM2", LeftHalf(wk[w].kind, wk[w].trail[j], wk[w].nums[j]))
      /\ wk[w].kind = "priv" => ValidScalar("SM2", wk[w].trail[j + 1].private_key)
      /\ wk[w].kind = "pub" => ValidPoint("SM2", wk[w].trail[j + 1].public_key)

\* C23 (as claimed): child scalar arithmetic. The private key of the child a
\* step of ckd_priv returns is (s + IL) mod n, for the parent scalar s, the left
\* half IL of the HMAC output and the order n of the group.
C23_ChildScalarModOrder ==
  \A w \in Workers :
    wk[w].kind = "priv" =>
      \A j \in Steps(w) :
        BytesToInt(wk[w].trail[j + 1].private_key)
          = (BytesToInt(wk[w].trail[j].private_key)
             + BytesToInt(LeftHalf("priv", wk[w].trail[j], wk[w].nums[j]))) % GroupOrder

\* C24 (as claimed): path derivation is a left-to-right fold of CKD. The key a
\* derive_priv / derive_pub over the child numbers p ++ q returns is a result
\* of deriving over q from a result of deriving over p, for every split of the
\* path; the empty sequence returns the receiver; the depth of the result is
\* the receiver's depth plus the number of components and its child number is
\* the last component.
C24_LeftToRightFold ==
  \A w \in Workers :
    wk[w].pc = "done" =>
      LET n == Len(wk[w].nums)
      IN  /\ \A j \in 0..n :
               \E mid \in RunAlone(wk[w].kind, wk[w].self, SubSeq(wk[w].nums, 1, j)) :
                 /\ mid.ok
                 /\ wk[w].out \in RunAlone(wk[w].kind, mid.val, SubSeq(wk[w].nums, j + 1, n))
          /\ n = 0 => wk[w].out.val = wk[w].self
          /\ wk[w].out.val.depth = wk[w].self.depth + n
          /\ n > 0 => wk[w].out.val.child_number = wk[w].nums[n]

\* the child number's offset in the payload of a text of the form
CnOffset(form) == IF form = "hex" THEN LayoutCn ELSE VersionLen + LayoutCn

\* the bytes a text of the form encodes
PayloadBytes(form, text) ==
  IF form = "hex" THEN HexBytes(text, 0, Len(text) \div 2) ELSE FromCheck(text).val

\* C25: child-number encoding. A 32-bit value x made a ChildNumber and back is
\* x; the ChildNumber is hardened exactly when the top bit of x is set, with
\* the low 31 bits as index; the four bytes ckd_priv and ckd_pub feed to the
\* HMAC and the four bytes the codecs write are the big-endian bytes of x.
C25_ChildNumberEncoding ==
  codec.stage \in {"converted", "stepped", "written"} =>
    LET x == codec.payload
    IN  /\ codec.u32 = x
        /\ codec.cn.hardened = (x[1] >= 128)
        /\ codec.cn.index = ((x[1] % 128) * 16777216) + (x[2] * 65536) + (x[3] * 256) + x[4]
        /\ (codec.stage = "stepped" /\ codec.back.ok) =>
             /\ codec.back.val.child_number = codec.cn
             /\ codec.back.val.chain_code =
                  SubSeq(HmacSha512(ChildNumberParent.chain_code,
                                    (IF codec.form = "pub" \/ ~codec.cn.hardened
                                       THEN Sm2PublicKeyOf(ChildNumberParent.private_key).val
                                       ELSE <<0>> \o ChildNumberParent.private_key) \o x),
                         ScalarLen + 1, 2 * ScalarLen)
        /\ codec.stage = "written" =>
             /\ codec.text.ok
             /\ SubSeq(PayloadBytes(codec.form, codec.text.val),
                       CnOffset(codec.form) + 1, CnOffset(codec.form) + 4) = x

\* the largest 32-bit value was made a child number, which a codec wrote
C25_Witness ==
  /\ codec.stage = "written"
  /\ codec.payload = <<255, 255, 255, 255>>
  /\ codec.cn = Hardened(2147483647)
  /\ codec.form = "priv58"
  /\ codec.text.ok

\* the public key that belongs to a key of a derivation
PublicKeyBytesOf(kind, key) ==
  IF kind = "pub" THEN key.public_key ELSE Sm2PublicKeyOf(key.private_key).val

\* C26: lineage labels. The child of every successful step of ckd_priv or
\* ckd_pub has the step's index as child number and, as parent fingerprint, the
\* first bytes of the identifier hash of the parent's public key; the
\* fingerprint of an extended private key is the fingerprint of
\* from_private of it.
C26_LineageLabels ==
  \A w \in Workers :
    \A j \in Steps(w) :
      /\ wk[w].trail[j + 1].child_number = wk[w].nums[j]
      /\ wk[w].trail[j + 1].parent_fingerprint
           = SubSeq(Hash160(PublicKeyBytesOf(wk[w].kind, wk[w].trail[j])), 1, FingerprintLen)
      /\ wk[w].kind = "priv" =>
           /\ FromPrivate(wk[w].trail[j]).ok
           /\ PrivFingerprint(wk[w].trail[j])
                = Ok(PubFingerprint(FromPrivate(wk[w].trail[j]).val.public_key))

\* a private derivation has made a normal child and a hardened grandchild
C26_Witness ==
  \E w \in Workers :
    /\ wk[w].kind = "priv"
    /\ wk[w].pc = "done"
    /\ Len(wk[w].trail) = 3
    /\ ~wk[w].nums[1].hardened
    /\ wk[w].nums[2].hardened
    /\ wk[w].trail[3].parent_fingerprint # wk[w].trail[2].parent_fingerprint

\* C27: conversion to a public extended key keeps the lineage metadata. The
\* key deterministic_public_key() (from_private) returns for an extended
\* private key E has the depth, parent fingerprint, child number and chain code
\* of E and the public key of E's private key; E is as it was.
C27_FromPrivateKeepsLineage ==
  \A w \in Workers :
    wk[w].pc = "public" =>
      LET E == wk[w].trail[Len(wk[w].trail)]
      IN  /\ wk[w].out = Ok(E)
          /\ wk[w].pub.ok =>
               /\ wk[w].pub.val.depth = E.depth
               /\ wk[w].pub.val.parent_fingerprint = E.parent_fingerprint
               /\ wk[w].pub.val.child_number = E.child_number
               /\ wk[w].pub.val.chain_code = E.chain_code
               /\ Ok(wk[w].pub.val.public_key) = Sm2PublicKeyOf(E.private_key)

\* the public key of a hardened grandchild of depth 2 was made
C27_Witness ==
  \E w \in Workers :
    /\ wk[w].pc = "public"
    /\ wk[w].pub.ok
    /\ wk[w].pub.val.depth = 2
    /\ wk[w].pub.val.child_number.hardened
    /\ wk[w].pub.val.parent_fingerprint # Zeros(FingerprintLen)

\* an address without its leading "0x", if it has one
WithoutPrefix(a) ==
  IF Len(a) >= 2 /\ SubSeq(a, 1, 2) = <<"0", "x">> THEN SubSeq(a, 3, Len(a)) ELSE a

\* the number of bytes of the UTF-8 encoding of a string
Utf8Bytes(a) ==
  Len(a) + Cardinality({i \in 1..Len(a) : a[i] = "U+00E9"})

\* C28 (as claimed): address validity check by length. is_valid of the Sui,
\* Aptos and CITA address types returns true exactly when the address, after
\* removing at most one leading "0x", is exactly 64 characters long.
C28_ValidByCharacterCount ==
  call.stage = "validated" =>
    (call.first.val <=> Len(WithoutPrefix(call.data)) = AddressLen)

\* C28 (amended): is_valid returns true exactly when the address, after
\* removing at most one leading "0x", is exactly 64 bytes long in UTF-8; it
\* returns false for the empty string.
C28_ValidByByteLength ==
  call.stage = "validated" =>
    /\ call.first.ok
    /\ call.first.val <=> Utf8Bytes(WithoutPrefix(call.data)) = AddressLen
    /\ call.data = <<>> => ~call.first.val

\* an address of "0x" and two characters of two bytes each was found valid
C28_Witness ==
  /\ call.stage = "validated"
  /\ call.kind = "CITA"
  /\ call.data = <<"0", "x", "U+00E9", "U+00E9">>
  /\ call.first.val

\* the places of the registry whose entry matches the arguments of a lookup
MatchingPlaces(p) ==
  {i \in 1..Len(COIN_INFOS) :
     /\ COIN_INFOS[i].coin = p.chain_type
     /\ p.network # "" => COIN_INFOS[i].network = p.network
     /\ p.seg_wit # "" => COIN_INFOS[i].seg_wit = p.seg_wit
     /\ p.curve # "" => CurveAsStr(COIN_INFOS[i].curve) = p.curve}

\* C29: coin registry lookup. coin_info_from_param returns the last entry, in
\* registry order, whose coin is chain_type and whose network, seg_wit and
\* curve equal the arguments that are not empty; it returns an error when no
\* entry matches; and the registry is never modified, whatever lookups run side
\* by side.
C29_RegistryLookup ==
  /\ codec.infos = COIN_INFOS
  /\ \A w \in Workers :
       wk[w].pc = "returned" =>
         IF MatchingPlaces(wk[w].params) = {}
           THEN ~wk[w].out.ok
           ELSE /\ wk[w].out.ok
                /\ wk[w].out.val =
                     COIN_INFOS[CHOOSE i \in MatchingPlaces(wk[w].params) :
                                  \A j \in MatchingPlaces(wk[w].params) : j <= i]

\* a lookup that several entries match has returned while another lookup held
\* the read lock
C29_Witness ==
  /\ wk[1].pc = "returned"
  /\ Cardinality(MatchingPlaces(wk[1].params)) = 4
  /\ wk[1].out.ok
  /\ wk[2].pc = "collected"
  /\ wk[2].coins = <<>>
  /\ codec.readers = 1

\* the account metas of the instructions compiled that name a key
UsesOf(k) ==
  UNION { {call.data[i].accounts[j] : j \in {n \in 1..Len(call.data[i].accounts) :
                                              call.data[i].accounts[n].pubkey = k}}
          : i \in 1..Len(call.data) }

\* the group of a key: 1 writable signers (the payer among them), 2 read-only
\* signers, 3 writable non-signers, 4 read-only non-signers
GroupOf(k) ==
  LET signer   == \E u \in UsesOf(k) : u.is_signer
      writable == \E u \in UsesOf(k) : u.is_writable
  IN  IF k = call.payer \/ (signer /\ writable) THEN 1
      ELSE IF signer THEN 2
      ELSE IF writable THEN 3
      ELSE 4

\* C30 (as claimed): Solana message compilation. account_keys holds every key
\* of the instructions and the payer once, the payer first, then the other
\* writable signers, the read-only signers, the writable non-signers and the
\* read-only non-signers; the header counts are the sizes of the groups; the
\* program_id_index and the account indices of every compiled instruction
\* point at the key they were compiled from.
C30_MessageCompilation ==
  call.stage = "compiled" =>
    LET m    == call.first.val
        keys == m.account_keys
        in(g) == Cardinality({i \in 1..Len(keys) : GroupOf(keys[i]) = g})
    IN  /\ \A i \in 1..Len(keys), j \in 1..Len(keys) : keys[i] = keys[j] => i = j
        /\ {keys[i] : i \in 1..Len(keys)} = MetaKeys(call.data) \cup {call.payer}
        /\ keys[1] = call.payer
        /\ \A i \in 1..(Len(keys) - 1) : GroupOf(keys[i]) <= GroupOf(keys[i + 1])
        /\ m.header.num_required_signatures = in(1) + in(2)
        /\ m.header.num_readonly_signed_accounts = in(2)
        /\ m.header.num_readonly_unsigned_accounts = in(4)
        /\ Len(m.instructions) = Len(call.data)
        /\ \A i \in 1..Len(call.data) :
             /\ keys[m.instructions[i].program_id_index + 1] = call.data[i].program_id
             /\ Len(m.instructions[i].accounts) = Len(call.data[i].accounts)
             /\ \A j \in 1..Len(call.data[i].accounts) :
                  keys[m.instructions[i].accounts[j] + 1] = call.data[i].accounts[j].pubkey

====
